---- MODULE Spec2Model ----
(***************************************************************************)
(* jjagent: the hook handlers of src/src/hooks.rs, the working-copy lock   *)
(* of src/src/lock.rs and the jj commands of src/src/jj.rs, over a model   *)
(* of the jj repository (a commit graph with parent pointers, descriptions *)
(* with trailers, file trees with first-class conflicts, an operation log).*)
(***************************************************************************)
EXTENDS Integers, Sequences, FiniteSets, TLC

-----------------------------------------------------------------------------
(* Bounds of the model *)

\* change-ids that jj may allocate in one run
MaxId == 8
\* tool writes in one run
MaxWrites == 1
\* PreToolUse invocations in one run
MaxPre == 2
\* Stop invocations in one run
MaxStop == 1
\* operations kept in the operation log (jj undo needs at most three)
OpLogDepth == 3
\* lock timeouts that may pass while no process waits
MaxTicks == 1
\* commands of the command line in one run
MaxCmds == 2

-----------------------------------------------------------------------------
(* Session identity: src/src/session.rs *)

\* SessionId::from_full keeps the first 8 characters as the short form
ShortLen == 8

\* two session ids with the same short form, as "session-a-..." and
\* "session-b-..." in tests/snapshot_test.rs
SidA == <<"s", "e", "s", "s", "i", "o", "n", "-", "a">>

SidB == <<"s", "e", "s", "s", "i", "o", "n", "-", "b">>

Sessions == {SidA, SidB}

\* the id of a session of an earlier run that contains the id of session a
SidLong == SidA \o <<"x">>

NoSid == <<>>

\* the content the tool of a session writes: the letter that tells the ids apart
ToolContent(sid) == sid[Len(sid)]

Min(a, b) == IF a < b THEN a ELSE b

\* SessionId::short(): full_id.chars().take(8)
short(full) == SubSeq(full, 1, Min(ShortLen, Len(full)))

\* A description: the title line ("jjagent: <kind> <short> [pt. <part>]", or
\* a user's own title) and the trailer block, in order.
Desc(kind, sh, part, trailers) ==
    [kind |-> kind, sh |-> sh, part |-> part, trailers |-> trailers]

Trailer(key, val) == [key |-> key, val |-> val]

EmptyDesc == Desc("", <<>>, 0, <<>>)

\* "jjagent: precommit {short}"
format_precommit_message(sid) == Desc("precommit", short(sid), 0, <<>>)

\* "jjagent: session {short}\n\nClaude-session-id: {full}"
format_session_message(sid) ==
    Desc("session", short(sid), 0, <<Trailer("Claude-session-id", sid)>>)

\* "jjagent: session {short} pt. {part}\n\nClaude-session-id: {full}"
format_session_part_message(sid, part) ==
    Desc("session", short(sid), part, <<Trailer("Claude-session-id", sid)>>)

RECURSIVE TrailerText(_)
TrailerText(ts) ==
    IF ts = <<>> THEN <<>>
    ELSE <<Head(ts).key>> \o Head(ts).val \o TrailerText(Tail(ts))

\* the text of a description, as the sequence of its words and characters
DescText(d) ==
    <<d.kind>> \o d.sh
    \o (IF d.part = 0 THEN <<>> ELSE <<"pt.", ToString(d.part)>>)
    \o TrailerText(d.trailers)

\* revset description("..."): substring match on the description text
IsSubstring(p, t) ==
    \E i \in 0..(Len(t) - Len(p)) : SubSeq(t, i + 1, i + Len(p)) = p

RECURSIVE JoinValues(_, _)
\* template trailers.map(|t| if(t.key() == key, t.value(), "")).join("")
JoinValues(ts, key) ==
    IF ts = <<>> THEN <<>>
    ELSE (IF Head(ts).key = key THEN Head(ts).val ELSE <<>>)
         \o JoinValues(Tail(ts), key)

\* template trailers.any(|t| t.key() == key && t.value() == val)
AnyTrailer(ts, key, val) ==
    \E i \in 1..Len(ts) : ts[i].key = key /\ ts[i].val = val

-----------------------------------------------------------------------------
(* File trees.  A file is one hunk; its state in a tree is a merge of      *)
(* contents, kept as the net count of each content (adds minus removes).   *)

Files == {"x", "y"}

\* contents of a file: absent, what the user wrote, what the tool of
\* session a / session b wrote
Absent == "-"

Contents == {"-", "u", "a", "b"}

\* the result of a merge that does not resolve
NoValue == "?"

\* a function written out as a table of its values
Explicit(f) == f @@ <<>>

Unit(v) == Explicit([x \in Contents |-> IF x = v THEN 1 ELSE 0])

\* jj's trivial_merge: terms that cancel are dropped; one content left is the
\* result, and so is a change that every side made (same-change = accept).
TrivialMerge(m) ==
    LET nz == {x \in Contents : m[x] # 0}
    IN  IF Cardinality(nz) = 1 THEN CHOOSE x \in nz : TRUE
        ELSE IF Cardinality(nz) = 2 /\ \E x \in nz : m[x] > 0
             THEN CHOOSE x \in nz : m[x] > 0
             ELSE NoValue

Norm(m) == IF TrivialMerge(m) = NoValue THEN m ELSE Unit(TrivialMerge(m))

EmptyTree == Explicit([f \in Files |-> Unit(Absent)])

\* the tree of `base` with the change from `from` to `to` applied (3-way merge)
TMerge(base, from, to) ==
    Explicit([f \in Files |->
        Norm(Explicit([x \in Contents |-> base[f][x] + to[f][x] - from[f][x]]))])

TreeConflicted(t) == \E f \in Files : TrivialMerge(t[f]) = NoValue

-----------------------------------------------------------------------------
(* The repository: commits by change-id with a parent pointer (0 is the    *)
(* root commit), the working-copy commit @ and the operation log.          *)

Root == 0

Commit(parent, desc, tree, imm) ==
    [parent |-> parent, desc |-> desc, tree |-> tree, imm |-> imm]

Ids(c) == DOMAIN c

TreeOf(c, id) == IF id = Root THEN EmptyTree ELSE c[id].tree

ParentTree(c, id) == TreeOf(c, c[id].parent)

RECURSIVE Ancestors(_, _)
\* the strict ancestors of id, the root excluded
Ancestors(c, id) ==
    IF id = Root \/ c[id].parent = Root THEN {}
    ELSE {c[id].parent} \cup Ancestors(c, c[id].parent)

Descendants(c, id) == {d \in Ids(c) : id \in Ancestors(c, d)}

Children(c, id) == {d \in Ids(c) : c[d].parent = id}

RECURSIVE Depth(_, _)
Depth(c, id) == IF id = Root THEN 0 ELSE 1 + Depth(c, c[id].parent)

RECURSIVE Chain(_, _)
\* id and its ancestors, nearest first, the root excluded: the order of jj log
Chain(c, id) == IF id = Root THEN <<>> ELSE <<id>> \o Chain(c, c[id].parent)

\* revset conflicts()
Conflicted(c, id) == TreeConflicted(c[id].tree)

\* the diff of a commit is empty
EmptyChange(c, id) == c[id].tree = ParentTree(c, id)

-----------------------------------------------------------------------------
(* The jj commands the program runs.  A command maps a repository state    *)
(* st = [c, at, log, n, err, ...] to the state after it: c the commits, at *)
(* the working-copy commit, log the operation log (the states before the   *)
(* last operations, newest first), n the next fresh change-id, err whether *)
(* the command exited with a failure (the repository is then unchanged).   *)

\* F applied to the value of v, computed once
Bind(v, F(_)) == CHOOSE r \in {F(x) : x \in {v}} : TRUE

Fail(st) == [st EXCEPT !.err = TRUE]

Push(st) ==
    LET l == <<[c |-> st.c, at |-> st.at]>> \o st.log
    IN  SubSeq(l, 1, Min(OpLogDepth, Len(l)))

RECURSIVE NewTree(_, _, _, _)
\* the tree of commit d once its ancestors were rewritten: a seed has the given
\* tree, any other commit keeps its own change on top of its new parent
NewTree(c, par2, seeds, d) ==
    IF d = Root THEN EmptyTree
    ELSE IF d \in DOMAIN seeds THEN seeds[d]
    ELSE TMerge(NewTree(c, par2, seeds, par2[d]), ParentTree(c, d), c[d].tree)

\* rewrite the graph: keep the commits of `keep` with parents par2, rebasing
Rewrite(c, keep, par2, seeds) ==
    Bind(<<par2, seeds>>, LAMBDA ps :
        Explicit([d \in keep |-> [c[d] EXCEPT !.parent = ps[1][d],
                                              !.tree = NewTree(c, ps[1], ps[2], d)]]))

\* jj new -m desc: a new empty commit on top of @, which becomes @
jj_new(st, desc) ==
    [st EXCEPT !.c = (st.n :> Commit(st.at, desc, st.c[st.at].tree, FALSE)) @@ st.c,
               !.at = st.n, !.log = Push(st), !.n = st.n + 1]

\* jj new --insert-before x --no-edit -m desc: a new empty commit between x
\* and the parent of x; x and its descendants are rebased onto it, @ stays
jj_new_insert_before(st, x, desc) ==
    IF x = Root \/ st.c[x].imm THEN Fail(st)
    ELSE [st EXCEPT
            !.c = (st.n :> Commit(st.c[x].parent, desc, ParentTree(st.c, x), FALSE))
                  @@ [st.c EXCEPT ![x].parent = st.n],
            !.log = Push(st), !.n = st.n + 1]

\* the parents once commit `from` is abandoned: its children move to its parent
SkipParent(c, from) ==
    Explicit([d \in Ids(c) \ {from} |->
        IF c[d].parent = from THEN c[from].parent ELSE c[d].parent])

\* the commits once the change of `from` (from tree A to tree B) has moved
\* into `into` and `from` is abandoned, descendants rebased
Squashed(c, from, into) ==
    LET A == ParentTree(c, from)
        B == c[from].tree
        keep == Ids(c) \ {from}
    IN  IF into \in Ancestors(c, from)
        THEN Rewrite(c, keep, SkipParent(c, from),
                     into :> TMerge(c[into].tree, A, B))
        ELSE Bind(Rewrite(c, keep, SkipParent(c, from), <<>>), LAMBDA c1 :
                Rewrite(c1, keep, Explicit([d \in keep |-> c1[d].parent]),
                        into :> TMerge(c1[into].tree, A, B)))

\* jj squash --from from --into into with the description desc for the
\* destination: the whole change of `from` moves into `into`, `from` is
\* abandoned, descendants are rebased (conflicts are recorded, not refused);
\* when `from` was @, a new empty working-copy commit is made on its parent
jj_squash(st, from, into, desc) ==
    IF from = Root \/ into = Root \/ from = into THEN Fail(st)
    ELSE IF st.c[from].imm \/ st.c[into].imm THEN Fail(st)
    ELSE Bind(Squashed(st.c, from, into), LAMBDA c2 :
        Bind([c2 EXCEPT ![into].desc = desc], LAMBDA c3 :
            IF from = st.at
            THEN [st EXCEPT
                    !.c = (st.n :> Commit(st.c[from].parent, EmptyDesc,
                                          TreeOf(c3, st.c[from].parent), FALSE))
                          @@ c3,
                    !.at = st.n, !.log = Push(st), !.n = st.n + 1]
            ELSE [st EXCEPT !.c = c3, !.log = Push(st)]))

\* jj describe -m desc: the description of @ is replaced
jj_describe(st, desc) ==
    IF st.c[st.at].imm THEN Fail(st)
    ELSE [st EXCEPT !.c[st.at].desc = desc, !.log = Push(st)]

\* an undo that forgets the last operation and brings nothing back
C23_Mutant_undo(st) ==
    IF st.log = <<>> THEN Fail(st)
    ELSE [st EXCEPT !.log = Tail(st.log)]

\* jj undo: the repository goes back to the state before the last operation;
\* repeated, it goes back one operation further each time
jj_undo(st) ==
    IF st.log = <<>> THEN Fail(st)
    ELSE [st EXCEPT !.c = Head(st.log).c, !.at = Head(st.log).at,
                    !.log = Tail(st.log)]

\* jj edit id: id becomes @; the working-copy commit that is left is
\* abandoned when it is empty, has no description and no child
jj_edit(st, id) ==
    IF id \notin Ids(st.c) THEN Fail(st)
    ELSE IF st.c[id].imm THEN Fail(st)
    ELSE IF /\ st.at # id
            /\ EmptyChange(st.c, st.at)
            /\ st.c[st.at].desc = EmptyDesc
            /\ Children(st.c, st.at) = {}
         THEN [st EXCEPT !.c = Explicit([d \in Ids(st.c) \ {st.at} |-> st.c[d]]),
                         !.at = id, !.log = Push(st)]
         ELSE [st EXCEPT !.at = id, !.log = Push(st)]

\* jj abandon id: the commit is dropped and its children are rebased onto its
\* parent; when it was @, a new empty working-copy commit is made on its parent
jj_abandon(st, id) ==
    IF id \notin Ids(st.c) THEN Fail(st)
    ELSE IF st.c[id].imm THEN Fail(st)
    ELSE Bind(Rewrite(st.c, Ids(st.c) \ {id}, SkipParent(st.c, id), <<>>),
              LAMBDA c2 :
        IF id = st.at
        THEN [st EXCEPT
                !.c = (st.n :> Commit(st.c[id].parent, EmptyDesc,
                                      TreeOf(c2, st.c[id].parent), FALSE)) @@ c2,
                !.at = st.n, !.log = Push(st), !.n = st.n + 1]
        ELSE [st EXCEPT !.c = c2, !.log = Push(st)])

\* jj rebase -r r --insert-before x: r alone is taken out of its place (its
\* children go to its parent) and put between x and the parent of x; x and
\* its descendants are rebased onto r
jj_rebase_insert_before(st, r, x) ==
    IF r \notin Ids(st.c) \/ x \notin Ids(st.c) \/ r = x THEN Fail(st)
    ELSE IF st.c[r].imm \/ st.c[x].imm THEN Fail(st)
    ELSE Bind(SkipParent(st.c, r), LAMBDA skip :
         Bind(Explicit([d \in Ids(st.c) |->
                  IF d = r THEN skip[x] ELSE IF d = x THEN r ELSE skip[d]]),
              LAMBDA par2 :
            [st EXCEPT !.c = Rewrite(st.c, Ids(st.c), par2, <<>>),
                       !.log = Push(st)]))

-----------------------------------------------------------------------------
(* Queries of src/src/jj.rs *)

\* `jj root` succeeds: the directory is inside a repository, which then has
\* a working-copy commit; outside a repository there is no commit and no @
is_jj_repo(st) == st.at # Root

\* a head check that always passes
C10_Mutant_at_head(st) == TRUE

\* revset descendants(@) ~ @ is empty
is_at_head_in(st) == Descendants(st.c, st.at) = {}

\* revset conflicts() & @ is not empty
has_conflicts_in(st) == Conflicted(st.c, st.at)

\* the joined values of the Claude-session-id trailers of @; <<>> is None
get_current_commit_session_id_in(st) ==
    JoinValues(st.c[st.at].desc.trailers, "Claude-session-id")

RECURSIVE FilterValues(_, _)
\* template trailers.filter(|t| t.key() == key).map(|t| t.value()), one
\* value a line
FilterValues(ts, key) ==
    IF ts = <<>> THEN <<>>
    ELSE (IF Head(ts).key = key THEN <<Head(ts).val>> ELSE <<>>)
         \o FilterValues(Tail(ts), key)

\* the value of the last Claude-session-id trailer of commit rev; <<>> is
\* None
get_session_id_in(st, rev) ==
    Bind(FilterValues(st.c[rev].desc.trailers, "Claude-session-id"),
         LAMBDA lines : IF lines = <<>> THEN <<>> ELSE lines[Len(lines)])

\* a precommit check that does not compare the session id
C8_Mutant_precommit(st, sid) ==
    JoinValues(st.c[st.at].desc.trailers, "Claude-precommit-session-id") # <<>>

\* the joined values of the Claude-precommit-session-id trailers of @ are
\* not empty and equal the session id
is_current_commit_precommit_for_session_in(st, sid) ==
    Bind(JoinValues(st.c[st.at].desc.trailers, "Claude-precommit-session-id"),
         LAMBDA v : v # <<>> /\ v = sid)

\* the commits whose description contains the id and that carry the trailer
SessionCommits(c, sid) ==
    {d \in Ids(c) : /\ IsSubstring(sid, DescText(c[d].desc))
                    /\ AnyTrailer(c[d].desc.trailers, "Claude-session-id", sid)}

\* the first line of jj log: the commit farthest from the root, the newest
\* on a tie
FirstInLog(c, ds) ==
    {d \in ds : \A e \in ds :
        \/ Depth(c, e) < Depth(c, d)
        \/ Depth(c, e) = Depth(c, d) /\ e <= d}

\* a lookup that does not exclude the immutable commits
C21_Mutant_find(st, sid) ==
    Bind(SessionCommits(st.c, sid), LAMBDA ds : FirstInLog(st.c, ds))

\* a lookup that takes a trailer whose value contains the id
C40_Mutant_find(st, sid) ==
    Bind({d \in Ids(st.c) :
            /\ ~st.c[d].imm
            /\ \E i \in 1..Len(st.c[d].desc.trailers) :
                  /\ st.c[d].desc.trailers[i].key = "Claude-session-id"
                  /\ IsSubstring(sid, st.c[d].desc.trailers[i].val)},
         LAMBDA ds : FirstInLog(st.c, ds))

\* all() & description(sid) & ~immutable(), trailer checked, first match;
\* the result is a set with at most one change-id
find_session_change_anywhere_in(st, sid) ==
    Bind({d \in SessionCommits(st.c, sid) : ~st.c[d].imm},
         LAMBDA ds : FirstInLog(st.c, ds))

\* all() & description(sid), trailer checked, counted
count_session_parts_in(st, sid) == Cardinality(SessionCommits(st.c, sid))

\* a session commit inserted below @ instead of below @-
C19_Mutant_create(st, sid) ==
    jj_new_insert_before(st, st.at, format_session_message(sid))

\* jj new --insert-before @- --no-edit -m <session message>
create_session_change_in(st, sid) ==
    jj_new_insert_before(st, st.c[st.at].parent, format_session_message(sid))

\* conflicts() & (x:: | x); with x the root, every conflicted commit
count_conflicts_in(st, x) ==
    Cardinality({d \in Ids(st.c) :
        Conflicted(st.c, d) /\ (x = Root \/ d = x \/ x \in Ancestors(st.c, d))})

get_commit_description_in(st, id) == st.c[id].desc

\* the result of a step that can fail: the state, whether it succeeded, and
\* a flag (for the squash: whether it brought new conflicts)
Res(st, ok, flag) == [st |-> [st EXCEPT !.err = FALSE], ok |-> ok, flag |-> flag]

\* the first half of squash_precommit_into_session_in: the count of the
\* conflicts and the description of the user's commit are taken, then
\* jj squash --into <session> --use-destination-message runs, from @
SquashIntoSession(st, session_id, uwc_id) ==
    [before |-> count_conflicts_in(st, session_id),
     uwc_description |-> get_commit_description_in(st, uwc_id),
     session_id |-> session_id,
     st |-> jj_squash(st, st.at, session_id, st.c[session_id].desc)]

\* the second half: jj squash --from @- --into @ -m <uwc description>, then
\* the conflicts are counted again
RestoreUwc(s1, loc) ==
    IF loc.session_id \notin Ids(s1.c) THEN Res(s1, FALSE, FALSE)
    ELSE
    Bind(jj_squash(s1, s1.c[s1.at].parent, s1.at, loc.uwc_description), LAMBDA s2 :
        IF s2.err \/ loc.session_id \notin Ids(s2.c) THEN Res(s2, FALSE, FALSE)
        ELSE Res(s2, TRUE, count_conflicts_in(s2, loc.session_id) > loc.before))

squash_precommit_into_session_in(st, precommit_id, session_id, uwc_id) ==
    Bind(SquashIntoSession(st, session_id, uwc_id), LAMBDA loc :
        IF loc.st.err THEN Res(loc.st, FALSE, FALSE)
        ELSE RestoreUwc(loc.st, loc))

RECURSIVE TrappedOther(_, _, _)
\* the scan of the SESSION:/OTHER: lines: the first commit without a
\* Claude-session-id trailer that comes after one with it; a set of at most one
TrappedOther(c, chain, found_session) ==
    IF chain = <<>> THEN {}
    ELSE IF \E i \in 1..Len(c[Head(chain)].desc.trailers) :
                c[Head(chain)].desc.trailers[i].key = "Claude-session-id"
         THEN TrappedOther(c, Tail(chain), TRUE)
         ELSE IF found_session THEN {Head(chain)}
              ELSE TrappedOther(c, Tail(chain), FALSE)

\* a move of the trapped user commit that is kept whatever conflicts it brings
C24_Mutant_lift(n) ==
    Bind(TrappedOther(n.c, Chain(n.c, n.c[n.at].parent), FALSE), LAMBDA uwc :
        IF uwc = {} THEN Res(n, TRUE, FALSE)
        ELSE
        Bind(CHOOSE x \in uwc : TRUE, LAMBDA uwc_id :
        Bind(jj_squash(n, uwc_id, n.at, get_commit_description_in(n, uwc_id)),
             LAMBDA q :
            IF q.err THEN Res(n, TRUE, FALSE) ELSE Res(q, TRUE, FALSE))))

\* the end of handle_squash_conflicts_in: the attempt to move the trapped
\* user commit to the tip, undone when it brings new conflicts
LiftUwc(n) ==
    Bind(TrappedOther(n.c, Chain(n.c, n.c[n.at].parent), FALSE), LAMBDA uwc :
        IF uwc = {} THEN Res(n, TRUE, FALSE)
        ELSE
        Bind(CHOOSE x \in uwc : TRUE, LAMBDA uwc_id :
        Bind(jj_squash(n, uwc_id, n.at, get_commit_description_in(n, uwc_id)),
             LAMBDA q :
            IF q.err THEN Res(n, TRUE, FALSE)
            ELSE IF count_conflicts_in(q, Root) > count_conflicts_in(n, Root)
                 THEN Bind(jj_undo(q), LAMBDA un : Res(un, ~un.err, FALSE))
                 ELSE Res(q, TRUE, FALSE))))

\* a conflict handling that undoes one operation more than the two squashes
C20_Mutant_undo(st, sid, part) ==
    Bind(jj_undo(st), LAMBDA u0 :
        IF u0.err THEN Res(u0, FALSE, FALSE)
        ELSE
        Bind(jj_undo(u0), LAMBDA u1 :
            IF u1.err THEN Res(u1, FALSE, FALSE)
            ELSE
            Bind(jj_undo(u1), LAMBDA u2 :
                IF u2.err THEN Res(u2, FALSE, FALSE)
                ELSE
                Bind(jj_describe(u2, format_session_part_message(sid, part)), LAMBDA d :
                    IF d.err THEN Res(d, FALSE, FALSE)
                    ELSE Bind(jj_new(d, EmptyDesc), LAMBDA n : LiftUwc(n))))))

handle_squash_conflicts_in(st, sid, part) ==
    Bind(jj_undo(st), LAMBDA u1 :
        IF u1.err THEN Res(u1, FALSE, FALSE)
        ELSE
        Bind(jj_undo(u1), LAMBDA u2 :
            IF u2.err THEN Res(u2, FALSE, FALSE)
            ELSE
            Bind(jj_describe(u2, format_session_part_message(sid, part)), LAMBDA d :
                IF d.err THEN Res(d, FALSE, FALSE)
                ELSE Bind(jj_new(d, EmptyDesc), LAMBDA n : LiftUwc(n)))))

-----------------------------------------------------------------------------
(* The text of a description and the commands of src/src/jj.rs that work   *)
(* on it.  The text is a sequence of lines; a line "key: value" has its    *)
(* key, any other line has the key "" and a blank line has no text.        *)

Line(key, val) == [key |-> key, val |-> val]

BlankLine == Line("", <<>>)

\* line.trim().is_empty()
IsBlank(l) == l.key = "" /\ l.val = <<>>

\* line.contains(':')
HasColon(l) == l.key # ""

\* the titles the program writes begin with "jjagent: "
TitleLine(d) ==
    Line(IF d.kind \in {"precommit", "session"} THEN "jjagent" ELSE "",
         <<d.kind, d.sh, d.part>>)

TrailerLines(ts) == [i \in 1..Len(ts) |-> Line(ts[i].key, ts[i].val)]

\* the text of a description: the title, and after one blank line the
\* trailers, one a line
DescriptionLines(d) ==
    IF d = EmptyDesc THEN <<>>
    ELSE <<TitleLine(d)>>
         \o (IF d.trailers = <<>> THEN <<>>
             ELSE <<BlankLine>> \o TrailerLines(d.trailers))

\* the lines after the last blank line of a text that has one
LastParagraph(lines) ==
    LET blanks == {i \in 1..Len(lines) : IsBlank(lines[i])}
    IN  IF blanks = {} THEN <<>>
        ELSE SubSeq(lines, (CHOOSE i \in blanks : \A j \in blanks : j <= i) + 1,
                    Len(lines))

\* jj's trailers of a text: the lines of its last paragraph when the text
\* has more than one paragraph and every line of the last is "key: value"
ParsedTrailers(lines) ==
    Bind(LastParagraph(lines), LAMBDA p :
        IF \A i \in 1..Len(p) : HasColon(p[i])
        THEN [i \in 1..Len(p) |-> Trailer(p[i].key, p[i].val)]
        ELSE <<>>)

\* the description jj keeps for a text: its first line is the title
DescOfLines(lines) ==
    IF lines = <<>> THEN EmptyDesc
    ELSE Desc(lines[1].val[1], lines[1].val[2], lines[1].val[3],
              ParsedTrailers(lines))

RECURSIVE TrimStart(_)
TrimStart(lines) ==
    IF lines = <<>> THEN <<>>
    ELSE IF IsBlank(Head(lines)) THEN TrimStart(Tail(lines))
    ELSE lines

RECURSIVE TrimEnd(_)
TrimEnd(lines) ==
    IF lines = <<>> THEN <<>>
    ELSE IF IsBlank(lines[Len(lines)]) THEN TrimEnd(SubSeq(lines, 1, Len(lines) - 1))
    ELSE lines

\* str::trim() of a text: the blank lines at its start and end are dropped
Trim(lines) == TrimEnd(TrimStart(lines))

\* format!("{}\n\n{}", title.trim(), trailers.join("\n")), or the title
\* alone when there is no trailer
Emit(title, trailers) ==
    IF trailers = <<>> THEN title
    ELSE Trim(title) \o <<BlankLine>> \o trailers

\* the title and the trailers of a text: the trailers are the lines after
\* the last blank line when each of them has a ':', the title is what comes
\* before that blank line; otherwise the whole text is the title
parse_description_and_trailers(lines) ==
    LET blanks == {i \in 1..Len(lines) : IsBlank(lines[i])}
    IN  IF blanks = {} THEN [title |-> lines, trailers |-> <<>>]
        ELSE Bind(CHOOSE i \in blanks : \A j \in blanks : j <= i, LAMBDA b :
            IF b < Len(lines)
               /\ \A i \in (b + 1)..Len(lines) : HasColon(lines[i]) \/ IsBlank(lines[i])
            THEN [title |-> SubSeq(lines, 1, b - 1),
                  trailers |-> SelectSeq(SubSeq(lines, b + 1, Len(lines)),
                                         LAMBDA l : ~IsBlank(l))]
            ELSE [title |-> lines, trailers |-> <<>>])

\* jj describe -r rev -m <text>
jj_describe_rev(st, rev, lines) ==
    IF rev \notin Ids(st.c) THEN Fail(st)
    ELSE IF st.c[rev].imm THEN Fail(st)
    ELSE [st EXCEPT !.c[rev].desc = DescOfLines(lines), !.log = Push(st)]

\* template trailers.map(|t| t.key() ++ ": " ++ t.value()).join("\n")
get_commit_trailers_in(st, revset) == TrailerLines(st.c[revset].desc.trailers)

\* a describe that does not put the trailers back
C34_Mutant_update(st, revset, new_message) ==
    jj_describe_rev(st, revset, new_message)

\* the description of revset becomes new_message followed by the trailers
\* the commit had
update_description_preserving_trailers_in(st, revset, new_message) ==
    IF revset \notin Ids(st.c) THEN Fail(st)
    ELSE Bind(get_commit_trailers_in(st, revset), LAMBDA trailers :
            jj_describe_rev(st, revset,
                IF trailers = <<>> THEN new_message
                ELSE Trim(new_message) \o <<BlankLine>> \o trailers))

\* revset x..y: y and its ancestors that are neither x nor ancestors of x
Range(c, x, y) == ({y} \cup Ancestors(c, y)) \ ({x} \cup Ancestors(c, x))

\* the reference must pass the check that reference..@ is not empty; its
\* Claude-session-id trailers are dropped, one for session_id is put last
move_session_into(st, session_id, reference) ==
    IF reference \notin Ids(st.c) THEN Fail(st)
    ELSE IF Range(st.c, reference, st.at) = {} THEN Fail(st)
    ELSE Bind(parse_description_and_trailers(
                  DescriptionLines(get_commit_description_in(st, reference))),
              LAMBDA p :
         Bind(SelectSeq(p.trailers, LAMBDA t : t.key # "Claude-session-id")
              \o <<Line("Claude-session-id", session_id)>>,
              LAMBDA new_trailers :
            jj_describe_rev(st, reference,
                Trim(p.title) \o <<BlankLine>> \o new_trailers)))

\* what the user names: a session id, or a revision
NoRef == [sid |-> NoSid, rev |-> Root]

RefSession(sid) == [sid |-> sid, rev |-> Root]

RefRev(id) == [sid |-> NoSid, rev |-> id]

\* the commit a reference stands for: the session's commit when the
\* reference is the id of a session that has one, the revision otherwise
\* (a set with at most one change-id)
ResolveReference(st, reference) ==
    Bind(IF reference.sid = NoSid THEN {}
         ELSE find_session_change_anywhere_in(st, reference.sid),
         LAMBDA found :
            IF found # {} THEN found
            ELSE {reference.rev} \cap Ids(st.c))

\* a new part of the session of the referenced commit (the first
\* Claude-session-id trailer it has) is inserted before @, numbered one more
\* than the commits of the session there are
split_change(st, reference) ==
    Bind(ResolveReference(st, reference), LAMBDA actual :
        IF actual = {} THEN Fail(st)
        ELSE Bind(CHOOSE t \in actual : TRUE, LAMBDA t :
            IF Range(st.c, t, st.at) = {} THEN Fail(st)
            ELSE Bind(FilterValues(st.c[t].desc.trailers, "Claude-session-id"),
                      LAMBDA ids :
                IF ids = <<>> THEN Fail(st)
                ELSE jj_new_insert_before(st, st.at,
                        format_session_part_message(ids[1],
                            count_session_parts_in(st, ids[1]) + 1)))))

-----------------------------------------------------------------------------
(* The working-copy lock of src/src/lock.rs.  The lock file .jj/jjagent-wc.lock
   is lf = [exists, holder, acquired_at], holder and acquired_at the
   session_id and the timestamp (seconds) of its metadata (NoSid and 0 when
   the file has none).  fl is the session whose hook process holds the OS lock
   on the file (try_lock_exclusive), NoSid when no process does: the handle is
   kept in the memory of the process that acquired it (LOCK_HANDLES).  The
   clock now counts milliseconds. *)

LOCK_TIMEOUT_SECS == 300

INITIAL_RETRY_MS == 100

MAX_RETRY_MS == 5000

\* Duration::from_secs(secs), in milliseconds
from_secs(secs) == secs * 1000

\* Duration::as_secs() of a time in milliseconds
as_secs(ms) == ms \div 1000

NoFile == [exists |-> FALSE, holder |-> NoSid, acquired_at |-> 0]

LockFile(sid) == [exists |-> TRUE, holder |-> sid, acquired_at |-> 0]

\* LockMetadata::new at time t: the session and the seconds of the clock
LockMetadata(sid, t) == [LockFile(sid) EXCEPT !.acquired_at = as_secs(t)]

\* LockMetadata::age_seconds at time t: now.saturating_sub(acquired_at)
age_seconds(lf, t) ==
    IF as_secs(t) >= lf.acquired_at THEN as_secs(t) - lf.acquired_at ELSE 0

\* a delay without the cap of MAX_RETRY_MS
C16_Mutant_delay(retry_delay) == retry_delay * 2

\* the delay after one sleep: min(retry_delay * 2, MAX_RETRY_MS)
NextDelay(retry_delay) == Min(retry_delay * 2, MAX_RETRY_MS)

\* the loop while the OS lock stays with another process: the time elapsed
\* when start.elapsed() < timeout first fails, sleeping retry_delay each turn
RECURSIVE WaitUntilTimeout(_, _)
WaitUntilTimeout(elapsed, retry_delay) ==
    IF elapsed < from_secs(LOCK_TIMEOUT_SECS)
    THEN WaitUntilTimeout(elapsed + retry_delay, NextDelay(retry_delay))
    ELSE elapsed

\* the holder the error of a timed-out acquire_lock names: read_lock_holder
\* gives the session (in short form) and the age of the metadata, if any
HolderInfo(st) ==
    IF st.lf.exists /\ st.lf.holder # NoSid
    THEN [holder |-> short(st.lf.holder), age |-> age_seconds(st.lf, st.now)]
    ELSE [holder |-> NoSid, age |-> 0]

\* the Err(e) arm of the loop: the error with the holder's session and age
TimedOut(st) == Res(st, FALSE, FALSE) @@ HolderInfo(st)

\* a lock that is refused as long as the file names another session
C15_Mutant_try_lock(st, sid) ==
    st.fl = NoSid /\ (~st.lf.exists \/ st.lf.holder \in {NoSid, sid})

\* file.try_lock_exclusive() of the process of session sid: granted when no
\* process holds the OS lock, whatever the file contains
try_lock_exclusive(st, sid) == st.fl = NoSid

\* open with create(true), then try_lock_exclusive until the timeout; on
\* success the metadata is overwritten with ours and the handle is kept
acquire_lock(st, sid) ==
    IF try_lock_exclusive(st, sid)
    THEN Res([st EXCEPT !.lf = LockMetadata(sid, st.now), !.fl = sid], TRUE, FALSE)
    ELSE TimedOut([st EXCEPT !.lf.exists = TRUE,
                             !.now = @ + WaitUntilTimeout(0, INITIAL_RETRY_MS)])

\* a release_lock that removes the file whatever session it names
C17_Mutant_release(st, sid) ==
    Bind(IF st.fl = sid THEN [st EXCEPT !.fl = NoSid] ELSE st, LAMBDA st1 :
        IF ~st1.lf.exists THEN Res(st1, FALSE, FALSE)
        ELSE Res([st1 EXCEPT !.lf = NoFile], TRUE, FALSE))

\* the handle of this process, if any, is dropped; the file must exist and,
\* when its metadata can be read, name our session; then it is removed
release_lock(st, sid) ==
    Bind(IF st.fl = sid THEN [st EXCEPT !.fl = NoSid] ELSE st, LAMBDA st1 :
        IF ~st1.lf.exists THEN Res(st1, FALSE, FALSE)
        ELSE IF st1.lf.holder # NoSid /\ st1.lf.holder # sid
             THEN Res(st1, FALSE, FALSE)
             ELSE Res([st1 EXCEPT !.lf = NoFile], TRUE, FALSE))

\* the hook process ends: the operating system drops the locks it held
ProcessExit(st, sid) == IF st.fl = sid THEN [st EXCEPT !.fl = NoSid] ELSE st

-----------------------------------------------------------------------------
(* The hook handlers of src/src/hooks.rs *)

\* the error messages of handle_pretool_hook, by what they name
NoMessage == ""

LockMessage == "Failed to acquire working copy lock"

SessionChangeMessage == "Working copy (@) is a session change"

NotAtHeadMessage == "Working copy (@) is not at a head"

ConflictsMessage == "Working copy (@) has conflicts"

\* the three invariant checks of PreToolUse, in their order: the message of
\* the first that fails
PreToolGuard(st) ==
    IF get_current_commit_session_id_in(st) # <<>> THEN SessionChangeMessage
    ELSE IF ~is_at_head_in(st) THEN NotAtHeadMessage
    ELSE IF has_conflicts_in(st) THEN ConflictsMessage
    ELSE NoMessage

\* PreToolUse with the lock left behind when a check fails
C12_Mutant_keep_lock(st, sid) ==
    IF PreToolGuard(st) # NoMessage THEN Res(st, FALSE, PreToolGuard(st))
    ELSE Res(jj_new(st, format_precommit_message(sid)), TRUE, NoMessage)

\* the guards of PreToolUse after the lock was acquired, then jj new -m
\* <precommit message>; every failure releases the lock first.  The flag of
\* the result is the error message.
PreToolBody(st, sid) ==
    IF PreToolGuard(st) # NoMessage
    THEN Res(release_lock(st, sid).st, FALSE, PreToolGuard(st))
    ELSE Res(jj_new(st, format_precommit_message(sid)), TRUE, NoMessage)

\* a PreToolUse that acquires the lock before it looks for the repository
C30_Mutant_pretool(st, sid) ==
    Bind(acquire_lock(st, sid), LAMBDA a :
        IF ~a.ok THEN [a EXCEPT !.flag = LockMessage]
        ELSE IF ~is_jj_repo(a.st) THEN Res(a.st, TRUE, NoMessage)
        ELSE Bind(a.st, LAMBDA st1 : PreToolBody(st1, sid)))

\* outside a repository the hook is a no-op that succeeds; inside, the lock
\* is acquired first
handle_pretool_hook(st, sid) ==
    IF ~is_jj_repo(st) THEN Res(st, TRUE, NoMessage)
    ELSE
    Bind(acquire_lock(st, sid), LAMBDA a :
        IF ~a.ok THEN [a EXCEPT !.flag = LockMessage]
        ELSE Bind(a.st, LAMBDA st1 : PreToolBody(st1, sid)))

\* the error of Command::output() when the jj program cannot be started
SpawnMessage == "Failed to execute jj"

\* the commands of PreToolUse whose Command::output() error is returned with `?`
SpawnSteps == {"workspace update-stale", "new"}

\* PreToolUse in a run in which jj cannot be started for the command `step`:
\* the error is returned at once, release_lock is not called
handle_pretool_hook_spawn_error(st, sid, step) ==
    IF ~is_jj_repo(st) THEN Res(st, TRUE, NoMessage)
    ELSE
    Bind(acquire_lock(st, sid), LAMBDA a :
        IF ~a.ok THEN [a EXCEPT !.flag = LockMessage]
        ELSE IF step = "workspace update-stale" THEN Res(a.st, FALSE, SpawnMessage)
        ELSE IF PreToolGuard(a.st) # NoMessage
             THEN Bind(a.st, LAMBDA st1 : PreToolBody(st1, sid))
             ELSE Res(a.st, FALSE, SpawnMessage))

\* the result r of a hook with the error message m it failed with
WithMessage(r, m) == r @@ [msg |-> m]

\* the error message of a result, if it names one
MessageOf(r) == IF "msg" \in DOMAIN r THEN r.msg ELSE NoMessage

\* finalize_precommit without its check for conflicts at @
C14_Mutant_no_check(st, sid) ==
    IF ~is_current_commit_precommit_for_session_in(st, sid)
    THEN Res(st, TRUE, FALSE)
    ELSE
    Bind(IF find_session_change_anywhere_in(st, sid) = {}
         THEN create_session_change_in(st, sid)
         ELSE st, LAMBDA st1 :
        IF st1.err THEN Res(st1, FALSE, FALSE)
        ELSE IF find_session_change_anywhere_in(st1, sid) = {}
        THEN Res(st1, FALSE, FALSE)
        ELSE Res(st1, TRUE, TRUE))

\* whether finalize_precommit gets as far as its first squash, and the state
\* it has then: the guards passed and the session commit found or created
BeforeSquash(st, sid) ==
    IF has_conflicts_in(st)
    THEN WithMessage(Res(st, FALSE, FALSE), ConflictsMessage)
    ELSE IF ~is_current_commit_precommit_for_session_in(st, sid)
    THEN Res(st, TRUE, FALSE)
    ELSE
    Bind(IF find_session_change_anywhere_in(st, sid) = {}
         THEN create_session_change_in(st, sid)
         ELSE st, LAMBDA st1 :
        IF st1.err THEN Res(st1, FALSE, FALSE)
        ELSE IF find_session_change_anywhere_in(st1, sid) = {}
        THEN Res(st1, FALSE, FALSE)
        ELSE Res(st1, TRUE, TRUE))

\* finalize_precommit after squash_precommit_into_session returned r
AfterSquash(r, sid) ==
    IF ~r.ok THEN Res(r.st, FALSE, TRUE)
    ELSE IF r.flag
    THEN Bind(handle_squash_conflicts_in(
                  r.st, sid, count_session_parts_in(r.st, sid) + 1),
              LAMBDA h : Res(h.st, h.ok, TRUE))
    ELSE Res(r.st, TRUE, TRUE)

\* a finalize_precommit that folds nothing
C7_Mutant_finalize(st, sid) == Res(st, ~has_conflicts_in(st), FALSE)

\* the result flag tells whether the squash was reached: @ was found to be a
\* precommit of the session and the session has its commit
finalize_precommit(st, sid) ==
    Bind(BeforeSquash(st, sid), LAMBDA b :
        IF ~b.flag THEN b
        ELSE Bind(b.st, LAMBDA st1 :
            Bind(squash_precommit_into_session_in(
                     st1, st1.at,
                     CHOOSE x \in find_session_change_anywhere_in(st1, sid) : TRUE,
                     st1.c[st1.at].parent),
                 LAMBDA r : AfterSquash(r, sid))))

\* outside a repository a no-op that succeeds; inside, finalize, then
\* release the lock whatever the result; a failed release is only a warning.
\* The flag tells whether the release succeeded.
handle_posttool_hook(st, sid) ==
    IF ~is_jj_repo(st) THEN Res(st, TRUE, FALSE)
    ELSE
    Bind(finalize_precommit(st, sid), LAMBDA result :
        Bind(release_lock(result.st, sid), LAMBDA rel :
            WithMessage(Res(rel.st, result.ok, rel.ok), MessageOf(result))))

handle_stop_hook(st, sid) ==
    IF ~is_jj_repo(st) THEN Res(st, TRUE, FALSE)
    ELSE
    Bind(finalize_precommit(st, sid), LAMBDA result :
        Bind(release_lock(result.st, sid), LAMBDA rel :
            WithMessage(Res(rel.st, result.ok, rel.ok), MessageOf(result))))

-----------------------------------------------------------------------------
(* The hook dispatcher of src/src/main.rs.  It keeps, for each session, the
   change-id of the working copy it found in the file
   claude-session-<id>-original-working-copy.txt of the temp directory; `file`
   maps each session to the content of its file, Root when there is none. *)

\* a hook input without tool_name
NoTool == ""

file_modifying_tools == {"Edit", "Write", "MultiEdit", "NotebookEdit"}

\* "Temporary change for session {id}\n\nClaude-temp-change: {id}"
TempChangeMessage(sid) ==
    Desc("temp", sid, 0, <<Trailer("Claude-temp-change", sid)>>)

\* "Claude Code Session {id}\n\nClaude-session-id: {id}"
ClaudeSessionMessage(sid) ==
    Desc("claude", sid, 0, <<Trailer("Claude-session-id", sid)>>)

\* the lines of the last paragraph are read from the end: the value of the
\* last trailer with that key; <<>> is None
LastTrailerValue(d, key) ==
    Bind(FilterValues(d.trailers, key),
         LAMBDA vs : IF vs = <<>> THEN <<>> ELSE vs[Len(vs)])

extract_session_id_from_temp_change(d) == LastTrailerValue(d, "Claude-temp-change")

\* a change that cannot be read has an empty description
get_session_id_from_change(st, change_id) ==
    IF change_id \notin Ids(st.c) THEN <<>>
    ELSE LastTrailerValue(st.c[change_id].desc, "Claude-session-id")

is_temp_change(st, change_id) ==
    /\ change_id \in Ids(st.c)
    /\ LastTrailerValue(st.c[change_id].desc, "Claude-temp-change") # <<>>

\* TRUE when the change is neither a commit of another session nor a
\* temporary change
verify_change_safe_for_session(st, change_id, current_session_id) ==
    /\ get_session_id_from_change(st, change_id) \in {<<>>, current_session_id}
    /\ ~is_temp_change(st, change_id)

\* jj log -r description(glob:'*Claude-session-id: {id}*') --limit 1
SearchClaudeChange(st, sid) ==
    FirstInLog(st.c, {d \in Ids(st.c) :
        IsSubstring(<<"Claude-session-id">> \o sid, DescText(st.c[d].desc))})

\* wait_for_other_session polls every poll_interval until more than
\* timeout_secs have passed
timeout_secs == 60

poll_interval == 2

\* the time the loop takes while the other session's temporary change stays
\* at @: the first poll after timeout_secs
wait_for_other_session == from_secs(timeout_secs + poll_interval)

\* the result of a dispatcher hook: the repository, the files, success
MRes(st, file, ok) == [st |-> [st EXCEPT !.err = FALSE], file |-> file, ok |-> ok]

\* a PreToolUse that ignores tool_name
C36_Mutant_pre(st, file, sid, tool_name) ==
    IF ~verify_change_safe_for_session(st, st.at, sid) THEN MRes(st, file, FALSE)
    ELSE MRes(jj_describe(jj_new(st, EmptyDesc), TempChangeMessage(sid)),
              [file EXCEPT ![sid] = st.at], TRUE)

handle_pre_tool_use(st, file, sid, tool_name) ==
    IF tool_name # NoTool /\ tool_name \notin file_modifying_tools
    THEN MRes(st, file, TRUE)
    ELSE
    Bind(extract_session_id_from_temp_change(st.c[st.at].desc), LAMBDA t :
        IF t = sid THEN MRes(st, file, TRUE)
        ELSE IF t # <<>>
        THEN MRes([st EXCEPT !.now = @ + wait_for_other_session], file, FALSE)
        ELSE IF ~verify_change_safe_for_session(st, st.at, sid)
        THEN MRes(st, file, FALSE)
        ELSE MRes(jj_describe(jj_new(st, EmptyDesc), TempChangeMessage(sid)),
                  [file EXCEPT ![sid] = st.at], TRUE))

\* an abandon of the temporary change that does not go back to the original
C35_Mutant_abandon(st, file, temp, orig) ==
    Bind(jj_abandon(st, temp), LAMBDA a1 : MRes(a1, file, ~a1.err))

\* the temporary change has no diff: it is abandoned and @ goes back
AbandonTemp(st, file, temp, orig) ==
    Bind(jj_abandon(st, temp), LAMBDA a1 :
        IF a1.err THEN MRes(a1, file, FALSE)
        ELSE Bind(jj_edit(a1, orig), LAMBDA a2 : MRes(a2, file, ~a2.err)))

\* the session has a commit: @ goes back, then the temporary change is
\* squashed into that commit
SquashIntoExisting(st, file, temp, orig, existing) ==
    Bind(jj_edit(st, orig), LAMBDA e1 :
        IF e1.err THEN MRes(e1, file, FALSE)
        ELSE Bind(jj_squash(e1, temp, existing, e1.c[existing].desc), LAMBDA e2 :
                MRes(e2, file, ~e2.err)))

\* first tool use: the temporary change is moved below the original and
\* becomes the commit of the session, then @ goes back
InsertClaudeChange(st, file, sid, temp, orig) ==
    Bind(jj_rebase_insert_before(st, temp, orig), LAMBDA r1 :
        IF r1.err THEN MRes(r1, file, FALSE)
        ELSE Bind([r1 EXCEPT !.c[temp].desc = ClaudeSessionMessage(sid),
                             !.log = Push(r1)], LAMBDA r2 :
             Bind(jj_edit(r2, orig), LAMBDA r3 : MRes(r3, file, ~r3.err))))

handle_post_tool_use(st, file, sid, tool_name) ==
    IF tool_name # NoTool /\ tool_name \notin file_modifying_tools
    THEN MRes(st, file, TRUE)
    ELSE IF file[sid] = Root THEN MRes(st, file, TRUE)
    ELSE
    Bind(file[sid], LAMBDA orig :
        IF ~verify_change_safe_for_session(st, orig, sid)
        THEN MRes(st, file, FALSE)
        ELSE IF EmptyChange(st.c, st.at) THEN AbandonTemp(st, file, st.at, orig)
        ELSE Bind(SearchClaudeChange(st, sid), LAMBDA found :
            IF found # {}
            THEN SquashIntoExisting(st, file, st.at, orig,
                                    CHOOSE x \in found : TRUE)
            ELSE InsertClaudeChange(st, file, sid, st.at, orig)))

\* SessionEnd: the file of the session is removed
handle_session_end(st, file, sid) == MRes(st, [file EXCEPT ![sid] = Root], TRUE)

-----------------------------------------------------------------------------
(* State *)

VARIABLES
    c,          \* the commits of the repository, by change-id
    at,         \* the working-copy commit @
    oplog,      \* the operation log: the states before the last operations
    nextId,     \* the next fresh change-id
    lockFile,   \* the lock file
    now,        \* the clock, in milliseconds
    flock,      \* the session whose running hook process holds the OS lock
    phase,      \* per session: "idle", or "tool" between PreToolUse and PostToolUse
    pc,         \* per session: where its running hook process is ("idle": none runs)
    loc,        \* per session: the local variables of its running hook process
    pres,       \* PreToolUse invocations so far
    stops,      \* Stop invocations so far
    nwrites,    \* tool writes so far
    holding,    \* per session: PreToolUse succeeded and no release by it succeeded since
    acquired,   \* per session: successful PreToolUse hooks
    released,   \* per session: successful release_lock calls of PostToolUse/Stop
    pre,        \* per session: @ as the last successful PreToolUse found it
    wrote,      \* per session: what the tool wrote since that PreToolUse
    last,       \* the last step: hook, session, result, the repository before it
    tmpFile,    \* per session: the file original-working-copy.txt of the temp dir
    toolName,   \* per session: the tool_name of the tool call the host is running
    cmds        \* the commands split, move-session-into and describe run so far

vars == <<c, at, oplog, nextId, lockFile, now, flock, phase, pc, loc, pres, stops,
          nwrites, holding, acquired, released, pre, wrote, last, tmpFile,
          toolName, cmds>>

World ==
    [c |-> c, at |-> at, log |-> oplog, n |-> nextId, err |-> FALSE,
     lf |-> lockFile, fl |-> flock, now |-> now]

\* the repository and the lock are left in state st
Store(st) ==
    /\ c' = st.c
    /\ at' = st.at
    /\ oplog' = st.log
    /\ nextId' = st.n
    /\ lockFile' = st.lf
    /\ flock' = st.fl
    /\ now' = st.now

\* the hook process of session sid ends in state st
Exit(st, sid) == Store(ProcessExit(st, sid))

NoWrites == [f \in Files |-> NoValue]

NoLoc == [before |-> 0, uwc_description |-> EmptyDesc, session_id |-> Root]

\* @ as a PreToolUse hook finds it: its change-id, tree, description, its
\* parent's tree; p is the commit the hook then creates
AtInfo(p) ==
    IF ~is_jj_repo(World)
    THEN [u |-> Root, tree |-> EmptyTree, desc |-> EmptyDesc,
          ptree |-> EmptyTree, p |-> p]
    ELSE [u |-> at, tree |-> c[at].tree, desc |-> c[at].desc,
          ptree |-> ParentTree(c, at), p |-> p]

\* hook: the step; sid: its session; ok: the hook's result; rel: whether its
\* release_lock succeeded; msg: its error message; holder, age: the session
\* and the age that message names; waited: the time the process spent in the
\* loop of acquire_lock; from: where the process was before the step ("idle"
\* when the step is a whole hook); tool: whether the tool of the session was
\* running; c0, at0, log0, n0, lf0, fl0, now0: the repository, the lock and
\* the clock before the step
Last(hook, sid, ok, rel) ==
    [hook |-> hook, sid |-> sid, ok |-> ok, rel |-> rel, msg |-> NoMessage,
     holder |-> NoSid, age |-> 0, waited |-> 0,
     tool |-> IF sid \in Sessions THEN phase[sid] = "tool" ELSE FALSE,
     from |-> IF sid \in Sessions THEN pc[sid] ELSE "idle",
     c0 |-> c, at0 |-> at, log0 |-> oplog, n0 |-> nextId,
     lf0 |-> lockFile, fl0 |-> flock, now0 |-> now, tmp0 |-> tmpFile,
     name0 |-> IF sid \in Sessions THEN toolName[sid] ELSE NoTool,
     ref |-> NoRef, text |-> <<>>]

\* the holder a result names, if it names one
HolderOf(r) ==
    IF "holder" \in DOMAIN r THEN [holder |-> r.holder, age |-> r.age]
    ELSE [holder |-> NoSid, age |-> 0]

-----------------------------------------------------------------------------
(* Steps.  The host runs one process per hook event; a tool runs between a
   successful PreToolUse and the PostToolUse of its session. *)

\* what a PreToolUse hook that ended with result r leaves behind
PreToolDone(s, r) ==
    /\ Exit(r.st, s)
    /\ phase' = [phase EXCEPT ![s] = IF r.ok THEN "tool" ELSE "idle"]
    /\ holding' = [holding EXCEPT ![s] = (r.ok /\ is_jj_repo(World)) \/ @]
    /\ acquired' = [acquired EXCEPT ![s] =
                        IF r.ok /\ is_jj_repo(World) THEN @ + 1 ELSE @]
    /\ pre' = [pre EXCEPT ![s] = IF r.ok THEN AtInfo(r.st.at) ELSE @]
    /\ wrote' = [wrote EXCEPT ![s] = IF r.ok THEN NoWrites ELSE @]
    /\ last' = [Last("PreTool", s, r.ok, FALSE) EXCEPT !.msg = r.flag,
                                                       !.holder = HolderOf(r).holder,
                                                       !.age = HolderOf(r).age]

\* a whole PreToolUse hook
PreTool(s) ==
    /\ UNCHANGED <<tmpFile, toolName, cmds>>
    /\ phase[s] = "idle"
    /\ pc[s] = "idle"
    /\ pres < MaxPre
    /\ nextId <= MaxId
    /\ \E r \in {handle_pretool_hook(World, s)} : PreToolDone(s, r)
    /\ pres' = pres + 1
    /\ UNCHANGED <<pc, loc, stops, nwrites, released>>

\* a whole PreToolUse hook during which jj cannot be started for one command
PreToolSpawnFail(s, step) ==
    /\ UNCHANGED <<tmpFile, toolName, cmds>>
    /\ phase[s] = "idle"
    /\ pc[s] = "idle"
    /\ pres < MaxPre
    /\ \E r \in {handle_pretool_hook_spawn_error(World, s, step)} : PreToolDone(s, r)
    /\ pres' = pres + 1
    /\ UNCHANGED <<pc, loc, stops, nwrites, released>>

\* the tool of session s writes its content to file f of the working copy;
\* jj snapshots the working copy into @ as an operation of its own
ToolWrite(s, f) ==
    /\ UNCHANGED <<tmpFile, toolName, cmds>>
    /\ phase[s] = "tool"
    /\ pc[s] = "idle"
    /\ nwrites < MaxWrites
    /\ c' = IF is_jj_repo(World)
            THEN [c EXCEPT ![at].tree[f] = Unit(ToolContent(s))]
            ELSE c
    /\ oplog' = IF is_jj_repo(World) THEN Push(World) ELSE oplog
    /\ wrote' = [wrote EXCEPT ![s][f] = ToolContent(s)]
    /\ nwrites' = nwrites + 1
    /\ last' = Last("ToolWrite", s, TRUE, FALSE)
    /\ UNCHANGED <<at, nextId, lockFile, now, flock, phase, pc, loc, pres,
                   stops, holding, acquired, released, pre>>

\* change-ids left for one finalize_precommit (it creates at most three)
IdsLeft(s) ==
    IF ~is_jj_repo(World) THEN TRUE
    ELSE \/ nextId + 2 <= MaxId
         \/ ~is_current_commit_precommit_for_session_in(World, s)

\* what a PostToolUse or Stop hook that ended with result r leaves behind
FinalizeDone(hook, s, r) ==
    /\ Exit(r.st, s)
    /\ holding' = [holding EXCEPT ![s] = @ /\ ~r.flag]
    /\ released' = [released EXCEPT ![s] = IF r.flag THEN @ + 1 ELSE @]
    /\ phase' = [phase EXCEPT ![s] = "idle"]
    /\ last' = [Last(hook, s, r.ok, r.flag) EXCEPT !.msg = MessageOf(r)]

\* a whole PostToolUse hook
PostTool(s) ==
    /\ UNCHANGED <<tmpFile, toolName, cmds>>
    /\ phase[s] = "tool"
    /\ pc[s] = "idle"
    /\ IdsLeft(s)
    /\ \E r \in {handle_posttool_hook(World, s)} : FinalizeDone("PostTool", s, r)
    /\ UNCHANGED <<pc, loc, pres, stops, nwrites, acquired, pre, wrote>>

\* a whole Stop hook
Stop(s) ==
    /\ UNCHANGED <<tmpFile, toolName, cmds>>
    /\ pc[s] = "idle"
    /\ stops < MaxStop
    /\ IdsLeft(s)
    /\ \E r \in {handle_stop_hook(World, s)} : FinalizeDone("Stop", s, r)
    /\ stops' = stops + 1
    /\ UNCHANGED <<pc, loc, pres, nwrites, acquired, pre, wrote>>

\* PreToolUse, first half: the process of session s gets the OS lock on the
\* lock file and writes its metadata; while another process has the OS lock
\* this one waits
PreToolAcquire(s) ==
    /\ UNCHANGED <<tmpFile, toolName, cmds>>
    /\ is_jj_repo(World)
    /\ phase[s] = "idle"
    /\ pc[s] = "idle"
    /\ pres < MaxPre
    /\ nextId <= MaxId
    /\ flock = NoSid
    /\ Store(acquire_lock(World, s).st)
    /\ pc' = [pc EXCEPT ![s] = "acquired"]
    /\ pres' = pres + 1
    /\ last' = Last("PreToolAcquire", s, TRUE, FALSE)
    /\ UNCHANGED <<phase, loc, stops, nwrites, holding, acquired, released,
                   pre, wrote>>

\* PreToolUse, second half: the guards and jj new, then the process ends
PreToolFinish(s) ==
    /\ UNCHANGED <<tmpFile, toolName, cmds>>
    /\ pc[s] = "acquired"
    /\ \E w \in {World} : \E r \in {PreToolBody(w, s)} : PreToolDone(s, r)
    /\ pc' = [pc EXCEPT ![s] = "idle"]
    /\ UNCHANGED <<loc, pres, stops, nwrites, released>>

\* PreToolUse, acquire_lock step by step: the process of session s opens the
\* lock file, creating it when absent, and enters the loop
LockStart(s) ==
    /\ UNCHANGED <<tmpFile, toolName, cmds>>
    /\ is_jj_repo(World)
    /\ phase[s] = "idle"
    /\ pc[s] = "idle"
    /\ pres < MaxPre
    /\ nextId <= MaxId
    /\ lockFile' = [lockFile EXCEPT !.exists = TRUE]
    /\ pc' = [pc EXCEPT ![s] = "locking"]
    /\ loc' = [loc EXCEPT ![s] = [start |-> now,
                                  retry_delay |-> INITIAL_RETRY_MS,
                                  tries |-> 0]]
    /\ pres' = pres + 1
    /\ last' = Last("LockStart", s, TRUE, FALSE)
    /\ UNCHANGED <<c, at, oplog, nextId, now, flock, phase, stops, nwrites,
                   holding, acquired, released, pre, wrote>>

\* a turn of the loop in which try_lock_exclusive succeeds
LockAcquire(s) ==
    /\ UNCHANGED <<tmpFile, toolName, cmds>>
    /\ pc[s] = "locking"
    /\ try_lock_exclusive(World, s)
    /\ Store(acquire_lock(World, s).st)
    /\ pc' = [pc EXCEPT ![s] = "acquired"]
    /\ loc' = [loc EXCEPT ![s] = NoLoc]
    /\ last' = [Last("PreToolAcquire", s, TRUE, FALSE)
                    EXCEPT !.waited = now - loc[s].start]
    /\ UNCHANGED <<phase, pres, stops, nwrites, holding, acquired, released,
                   pre, wrote>>

\* a turn of the loop in which it fails before the timeout: the process
\* sleeps retry_delay, then doubles it up to the cap
LockWait(s) ==
    /\ UNCHANGED <<tmpFile, toolName, cmds>>
    /\ pc[s] = "locking"
    /\ ~try_lock_exclusive(World, s)
    /\ now - loc[s].start < from_secs(LOCK_TIMEOUT_SECS)
    /\ now' = now + loc[s].retry_delay
    /\ loc' = [loc EXCEPT ![s].retry_delay = NextDelay(@),
                          ![s].tries = @ + 1]
    /\ last' = [Last("LockWait", s, TRUE, FALSE)
                    EXCEPT !.waited = now - loc[s].start]
    /\ UNCHANGED <<c, at, oplog, nextId, lockFile, flock, phase, pc, pres,
                   stops, nwrites, holding, acquired, released, pre, wrote>>

\* a turn of the loop in which it fails after the timeout: the hook fails
LockTimeout(s) ==
    /\ UNCHANGED <<tmpFile, toolName, cmds>>
    /\ pc[s] = "locking"
    /\ ~try_lock_exclusive(World, s)
    /\ now - loc[s].start >= from_secs(LOCK_TIMEOUT_SECS)
    /\ \E r \in {[TimedOut(World) EXCEPT !.flag = LockMessage]} :
          /\ Exit(r.st, s)
          /\ last' = [Last("PreTool", s, FALSE, FALSE)
                          EXCEPT !.msg = r.flag, !.holder = r.holder,
                                 !.age = r.age, !.waited = now - loc[s].start]
    /\ pc' = [pc EXCEPT ![s] = "idle"]
    /\ loc' = [loc EXCEPT ![s] = NoLoc]
    /\ UNCHANGED <<phase, pres, stops, nwrites, holding, acquired, released,
                   pre, wrote>>

\* a little more than the lock timeout
TickMs == from_secs(LOCK_TIMEOUT_SECS) + from_secs(1)

\* time passes while no hook process runs
Tick ==
    /\ UNCHANGED <<tmpFile, toolName, cmds>>
    /\ \A s \in Sessions : pc[s] = "idle"
    /\ now < MaxTicks * TickMs
    /\ now' = now + TickMs
    /\ last' = Last("Tick", NoSid, TRUE, FALSE)
    /\ UNCHANGED <<c, at, oplog, nextId, lockFile, flock, phase, pc, loc, pres,
                   stops, nwrites, holding, acquired, released, pre, wrote>>

\* PostToolUse, first half: finalize_precommit up to and with its first
\* command that rewrites commits, jj squash --into <session>
PostToolSquash(s) ==
    /\ UNCHANGED <<tmpFile, toolName, cmds>>
    /\ phase[s] = "tool"
    /\ pc[s] = "idle"
    /\ IdsLeft(s)
    /\ \E b \in {BeforeSquash(World, s)} :
          /\ b.flag
          /\ \E l \in {SquashIntoSession(
                          b.st, CHOOSE x \in find_session_change_anywhere_in(b.st, s) : TRUE,
                          b.st.c[b.st.at].parent)} :
                /\ ~l.st.err
                /\ Store(l.st)
                /\ loc' = [loc EXCEPT ![s] = [before |-> l.before,
                                              uwc_description |-> l.uwc_description,
                                              session_id |-> l.session_id]]
    /\ pc' = [pc EXCEPT ![s] = "squashed"]
    /\ last' = Last("PostToolSquash", s, TRUE, FALSE)
    /\ UNCHANGED <<phase, pres, stops, nwrites, holding, acquired, released,
                   pre, wrote>>

\* PostToolUse, second half: jj squash --from @- --into @, the conflict
\* handling, release_lock, then the process ends
PostToolRestore(s) ==
    /\ UNCHANGED <<tmpFile, toolName, cmds>>
    /\ pc[s] = "squashed"
    /\ \E w \in {World} : \E r \in {RestoreUwc(w, loc[s])} :
       \E result \in {AfterSquash(r, s)} :
       \E rel \in {release_lock(result.st, s)} :
          FinalizeDone("PostTool", s, Res(rel.st, result.ok, rel.ok))
    /\ pc' = [pc EXCEPT ![s] = "idle"]
    /\ loc' = [loc EXCEPT ![s] = NoLoc]
    /\ UNCHANGED <<pres, stops, nwrites, acquired, pre, wrote>>

-----------------------------------------------------------------------------
(* Initial states *)

UserContent == "u"

\* a user's tree: file x has the user's content or is absent, y is absent
UserTrees == {[EmptyTree EXCEPT !["x"] = Unit(v)] : v \in {Absent, UserContent}}

UserDesc(kind) == Desc(kind, <<>>, 0, <<>>)

BaseCommit == Commit(Root, UserDesc("base"), EmptyTree, TRUE)

NoInfo ==
    [u |-> Root, tree |-> EmptyTree, desc |-> EmptyDesc, ptree |-> EmptyTree,
     p |-> Root]

\* what does not depend on the layout of the repository
InitCommon ==
    /\ oplog = <<>>
    /\ flock = NoSid
    /\ now = 0
    /\ pc = [s \in Sessions |-> "idle"]
    /\ loc = [s \in Sessions |-> NoLoc]
    /\ pres = 0
    /\ stops = 0
    /\ nwrites = 0
    /\ released = [s \in Sessions |-> 0]
    /\ wrote = [s \in Sessions |-> NoWrites]
    /\ last = [hook |-> "Init", sid |-> NoSid, ok |-> TRUE, rel |-> FALSE,
               msg |-> NoMessage, holder |-> NoSid, age |-> 0, waited |-> 0,
               tool |-> FALSE, from |-> "idle", c0 |-> c, at0 |-> at,
               log0 |-> <<>>, n0 |-> nextId, lf0 |-> lockFile, fl0 |-> NoSid,
               now0 |-> 0, tmp0 |-> [s \in Sessions |-> Root],
               name0 |-> NoTool, ref |-> NoRef, text |-> <<>>]
    /\ tmpFile = [s \in Sessions |-> Root]
    /\ toolName = [s \in Sessions |-> NoTool]
    /\ cmds = 0

\* no hook has run: no lock file, every session idle
InitQuiet ==
    /\ lockFile = NoFile
    /\ phase = [s \in Sessions |-> "idle"]
    /\ holding = [s \in Sessions |-> FALSE]
    /\ acquired = [s \in Sessions |-> 0]
    /\ pre = [s \in Sessions |-> NoInfo]

\* base <- uwc (@): a user's working copy on top of the trunk
InitPlain ==
    /\ \E t \in UserTrees :
          c = (1 :> BaseCommit) @@ (2 :> Commit(1, UserDesc("uwc"), t, FALSE))
    /\ at = 2
    /\ nextId = 3
    /\ InitQuiet
    /\ InitCommon

Next ==
    \/ \E s \in Sessions : PreTool(s)
    \/ \E s \in Sessions, f \in Files : ToolWrite(s, f)
    \/ \E s \in Sessions : PostTool(s)
    \/ \E s \in Sessions : Stop(s)

\* the hooks as the code is, from a user's plain repository
Spec == InitPlain /\ [][Next]_vars

\* the precommit message with the trailer that
\* is_current_commit_precommit_for_session_in looks for
PrecommitWithTrailer(sid) ==
    Desc("precommit", short(sid), 0, <<Trailer("Claude-precommit-session-id", sid)>>)

\* session a is between PreToolUse and PostToolUse: it has the lock file and
\* its tool is running, @ was u
InitTool(u) ==
    /\ lockFile = LockFile(SidA)
    /\ phase = [s \in Sessions |-> IF s = SidA THEN "tool" ELSE "idle"]
    /\ holding = [s \in Sessions |-> s = SidA]
    /\ acquired = [s \in Sessions |-> IF s = SidA THEN 1 ELSE 0]
    /\ pre = [s \in Sessions |->
                IF s = SidA
                THEN [u |-> u, tree |-> c[u].tree, desc |-> c[u].desc,
                      ptree |-> ParentTree(c, u), p |-> at]
                ELSE NoInfo]

\* base <- uwc <- precommit (@): @ is a precommit of session a that carries
\* the precommit trailer, no session commit yet
InitPrecommit ==
    /\ \E t \in UserTrees :
          c = (1 :> BaseCommit) @@ (2 :> Commit(1, UserDesc("uwc"), t, FALSE))
              @@ (3 :> Commit(2, PrecommitWithTrailer(SidA), t, FALSE))
    /\ at = 3
    /\ nextId = 4
    /\ InitTool(2)
    /\ InitCommon

\* base <- session a <- uwc <- precommit (@): as before, and the session
\* already has its commit, below the user's, with file y
InitSession ==
    /\ \E t \in UserTrees :
          c = (1 :> BaseCommit)
              @@ (2 :> Commit(1, format_session_message(SidA),
                              [EmptyTree EXCEPT !["y"] = Unit(ToolContent(SidA))],
                              FALSE))
              @@ (3 :> Commit(2, UserDesc("uwc"),
                              [t EXCEPT !["y"] = Unit(ToolContent(SidA))], FALSE))
              @@ (4 :> Commit(3, PrecommitWithTrailer(SidA),
                              [t EXCEPT !["y"] = Unit(ToolContent(SidA))], FALSE))
    /\ at = 4
    /\ nextId = 5
    /\ InitTool(3)
    /\ InitCommon

\* base <- uwc (@) <- top: the user's working copy has a commit above it
InitNotAtHead ==
    /\ \E t \in UserTrees :
          c = (1 :> BaseCommit) @@ (2 :> Commit(1, UserDesc("uwc"), t, FALSE))
              @@ (3 :> Commit(2, UserDesc("top"), t, FALSE))
    /\ at = 2
    /\ nextId = 4
    /\ InitQuiet
    /\ InitCommon

InitMid == InitPlain \/ InitPrecommit \/ InitSession \/ InitNotAtHead

\* the hooks from a repository in which a precommit with its trailer, a
\* session commit, or a commit above @ may already be present
SpecMid == InitMid /\ [][Next]_vars

\* file x in conflict between the user's content and that of session a
ConflictedTree ==
    [EmptyTree EXCEPT !["x"] =
        Explicit([v \in Contents |->
            IF v \in {UserContent, ToolContent(SidA)} THEN 1
            ELSE IF v = Absent THEN -1 ELSE 0])]

\* base <- session a (@): the working copy is a session commit
InitOnSession ==
    /\ c = (1 :> BaseCommit)
           @@ (2 :> Commit(1, format_session_message(SidA),
                           [EmptyTree EXCEPT !["y"] = Unit(ToolContent(SidA))],
                           FALSE))
    /\ at = 2
    /\ nextId = 3
    /\ InitQuiet
    /\ InitCommon

\* base <- uwc (@): the user's working copy has an unresolved conflict
InitConflicted ==
    /\ c = (1 :> BaseCommit) @@ (2 :> Commit(1, UserDesc("uwc"), ConflictedTree, FALSE))
    /\ at = 2
    /\ nextId = 3
    /\ InitQuiet
    /\ InitCommon

\* base <- uwc <- precommit (@): the tool of session a is running and the
\* precommit, with or without the precommit trailer, has an unresolved conflict
InitToolConflicted ==
    /\ \E t \in UserTrees, d \in {format_precommit_message(SidA),
                                  PrecommitWithTrailer(SidA)} :
          c = (1 :> BaseCommit) @@ (2 :> Commit(1, UserDesc("uwc"), t, FALSE))
              @@ (3 :> Commit(2, d, ConflictedTree, FALSE))
    /\ at = 3
    /\ nextId = 4
    /\ InitTool(2)
    /\ InitCommon

InitGuard ==
    InitMid \/ InitOnSession \/ InitConflicted \/ InitToolConflicted

\* the hooks from a repository in which @ may also be a session commit or
\* have an unresolved conflict
SpecGuard == InitGuard /\ [][Next]_vars

NextFail ==
    \/ Next
    \/ \E s \in Sessions, step \in SpawnSteps : PreToolSpawnFail(s, step)

\* the hooks in runs in which the jj program may fail to start
SpecFail == InitGuard /\ [][NextFail]_vars

\* base <- session a (immutable) <- uwc <- precommit (@): the only commit of
\* session a is part of the trunk; @ is a precommit of the session with its
\* trailer
InitImmutable ==
    /\ \E t \in UserTrees :
          c = (1 :> BaseCommit)
              @@ (2 :> Commit(1, format_session_message(SidA),
                              [EmptyTree EXCEPT !["y"] = Unit(ToolContent(SidA))],
                              TRUE))
              @@ (3 :> Commit(2, UserDesc("uwc"),
                              [t EXCEPT !["y"] = Unit(ToolContent(SidA))], FALSE))
              @@ (4 :> Commit(3, PrecommitWithTrailer(SidA),
                              [t EXCEPT !["y"] = Unit(ToolContent(SidA))], FALSE))
    /\ at = 4
    /\ nextId = 5
    /\ InitTool(3)
    /\ InitCommon

\* base <- session a <- session b <- uwc <- precommit (@): the commit of
\* session a wrote file y, the commit of session b above it wrote file x; the
\* user's commit rewrites y or changes nothing; @ is a precommit of session a
InitOtherSession ==
    /\ \E v \in {ToolContent(SidA), UserContent} :
          c = (1 :> BaseCommit)
              @@ (2 :> Commit(1, format_session_message(SidA),
                              [EmptyTree EXCEPT !["y"] = Unit(ToolContent(SidA))],
                              FALSE))
              @@ (3 :> Commit(2, format_session_message(SidB),
                              [EmptyTree EXCEPT !["x"] = Unit(ToolContent(SidB)),
                                                !["y"] = Unit(ToolContent(SidA))],
                              FALSE))
              @@ (4 :> Commit(3, UserDesc("uwc"),
                              [EmptyTree EXCEPT !["x"] = Unit(ToolContent(SidB)),
                                                !["y"] = Unit(v)], FALSE))
              @@ (5 :> Commit(4, PrecommitWithTrailer(SidA),
                              [EmptyTree EXCEPT !["x"] = Unit(ToolContent(SidB)),
                                                !["y"] = Unit(v)], FALSE))
    /\ at = 5
    /\ nextId = 6
    /\ InitTool(4)
    /\ InitCommon

\* session a <- U <- session a pt. 2 <- W <- precommit (@): what a conflict
\* path of session a leaves when the move of the user's commit U was undone
\* (U wrote the user's text to x, pt. 2 replaced it), followed by the next
\* PreToolUse of the session on the empty working-copy commit W; @ is a
\* precommit of the session with its trailer
InitTrapped ==
    /\ c = (1 :> Commit(Root, format_session_message(SidA), EmptyTree, FALSE))
           @@ (2 :> Commit(1, UserDesc("uwc"),
                           [EmptyTree EXCEPT !["x"] = Unit(UserContent)], FALSE))
           @@ (3 :> Commit(2, format_session_part_message(SidA, 2),
                           [EmptyTree EXCEPT !["x"] = Unit(ToolContent(SidA))],
                           FALSE))
           @@ (4 :> Commit(3, EmptyDesc,
                           [EmptyTree EXCEPT !["x"] = Unit(ToolContent(SidA))],
                           FALSE))
           @@ (5 :> Commit(4, PrecommitWithTrailer(SidA),
                           [EmptyTree EXCEPT !["x"] = Unit(ToolContent(SidA))],
                           FALSE))
    /\ at = 5
    /\ nextId = 6
    /\ InitTool(4)
    /\ InitCommon

InitParts ==
    \/ InitPrecommit
    \/ InitSession
    \/ InitImmutable
    \/ InitOtherSession
    \/ InitTrapped

\* the hooks from a repository in which the tool of session a is running on
\* a precommit with its trailer, the session having no commit, a commit, an
\* immutable commit, a commit below one of the other session, or two commits
\* with the user's commit trapped between them
SpecParts == InitParts /\ [][Next]_vars

\* "jjagent: session {short}" followed by one Claude-session-id trailer for
\* each session of ids, in that order
MultiSessionMessage(ids) ==
    Desc("session", short(ids[1]), 0,
         [i \in 1..Len(ids) |-> Trailer("Claude-session-id", ids[i])])

\* base <- M <- uwc <- precommit (@): M carries the Claude-session-id
\* trailers of both sessions, in either order (a user edited the
\* description); @ is a precommit of session a with its trailer
InitMultiBelow ==
    /\ \E t \in UserTrees, ids \in {<<SidA, SidB>>, <<SidB, SidA>>} :
          c = (1 :> BaseCommit)
              @@ (2 :> Commit(1, MultiSessionMessage(ids), EmptyTree, FALSE))
              @@ (3 :> Commit(2, UserDesc("uwc"), t, FALSE))
              @@ (4 :> Commit(3, PrecommitWithTrailer(SidA), t, FALSE))
    /\ at = 4
    /\ nextId = 5
    /\ InitTool(3)
    /\ InitCommon

\* base <- M (@): the working copy is the commit with both trailers
InitMultiAt ==
    /\ \E ids \in {<<SidA, SidB>>, <<SidB, SidA>>} :
          c = (1 :> BaseCommit)
              @@ (2 :> Commit(1, MultiSessionMessage(ids), EmptyTree, FALSE))
    /\ at = 2
    /\ nextId = 3
    /\ InitQuiet
    /\ InitCommon

\* the hooks from a repository with a commit that carries several
\* Claude-session-id trailers
SpecTrailers == (InitMultiBelow \/ InitMultiAt) /\ [][Next]_vars

\* the tool names the host sends in the model: a file-modifying tool, another
\* tool, none
ToolNames == {"Edit", "Bash", NoTool}

\* a whole PreToolUse hook of the dispatcher for a tool call named tn
MainPreTool(s, tn) ==
    /\ phase[s] = "idle"
    /\ pc[s] = "idle"
    /\ pres < MaxPre
    /\ nextId <= MaxId
    /\ \E r \in {handle_pre_tool_use(World, tmpFile, s, tn)} :
          /\ Store(r.st)
          /\ tmpFile' = r.file
          /\ phase' = [phase EXCEPT ![s] = IF r.ok THEN "tool" ELSE "idle"]
          /\ pre' = [pre EXCEPT ![s] = IF r.ok THEN AtInfo(r.st.at) ELSE @]
          /\ wrote' = [wrote EXCEPT ![s] = IF r.ok THEN NoWrites ELSE @]
          /\ last' = Last("MainPreTool", s, r.ok, FALSE)
    /\ toolName' = [toolName EXCEPT ![s] = tn]
    /\ pres' = pres + 1
    /\ UNCHANGED <<pc, loc, stops, nwrites, holding, acquired, released, cmds>>

\* a whole PostToolUse hook of the dispatcher, for the tool call that the
\* PreToolUse of the session was run for
MainPostTool(s) ==
    /\ phase[s] = "tool"
    /\ pc[s] = "idle"
    /\ nextId <= MaxId
    /\ \E r \in {handle_post_tool_use(World, tmpFile, s, toolName[s])} :
          /\ Store(r.st)
          /\ tmpFile' = r.file
          /\ last' = Last("MainPostTool", s, r.ok, FALSE)
    /\ phase' = [phase EXCEPT ![s] = "idle"]
    /\ UNCHANGED <<pc, loc, pres, stops, nwrites, holding, acquired, released,
                   pre, wrote, toolName, cmds>>

\* the Stop hook of the dispatcher: it only prints; the tool call of the
\* session, if one was open, is over
MainStop(s) ==
    /\ pc[s] = "idle"
    /\ stops < MaxStop
    /\ phase' = [phase EXCEPT ![s] = "idle"]
    /\ stops' = stops + 1
    /\ last' = Last("MainStop", s, TRUE, FALSE)
    /\ UNCHANGED <<c, at, oplog, nextId, lockFile, now, flock, pc, loc, pres,
                   nwrites, holding, acquired, released, pre, wrote, tmpFile,
                   toolName, cmds>>

\* the SessionEnd hook of the dispatcher
MainSessionEnd(s) ==
    /\ phase[s] = "idle"
    /\ pc[s] = "idle"
    /\ tmpFile[s] # Root
    /\ \E r \in {handle_session_end(World, tmpFile, s)} :
          /\ Store(r.st)
          /\ tmpFile' = r.file
          /\ last' = Last("MainSessionEnd", s, r.ok, FALSE)
    /\ UNCHANGED <<phase, pc, loc, pres, stops, nwrites, holding, acquired,
                   released, pre, wrote, toolName, cmds>>

NextMain ==
    \/ \E s \in Sessions, tn \in ToolNames : MainPreTool(s, tn)
    \/ \E s \in Sessions, f \in Files : ToolWrite(s, f)
    \/ \E s \in Sessions : MainPostTool(s)
    \/ \E s \in Sessions : MainStop(s)
    \/ \E s \in Sessions : MainSessionEnd(s)

\* base <- Claude change of session a <- uwc (@): an earlier tool use of the
\* session, which wrote file y, has left its commit below the user's
InitClaude ==
    /\ \E t \in UserTrees :
          c = (1 :> BaseCommit)
              @@ (2 :> Commit(1, ClaudeSessionMessage(SidA),
                              [EmptyTree EXCEPT !["y"] = Unit(ToolContent(SidA))],
                              FALSE))
              @@ (3 :> Commit(2, UserDesc("uwc"),
                              [t EXCEPT !["y"] = Unit(ToolContent(SidA))], FALSE))
    /\ at = 3
    /\ nextId = 4
    /\ InitQuiet
    /\ InitCommon

\* the hooks of the dispatcher of main.rs, from a user's plain repository or
\* one with a commit of session a
SpecMain == (InitPlain \/ InitClaude) /\ [][NextMain]_vars

\* what a command of the command line that ended in state st leaves behind
CommandDone(name, s, reference, text, st) ==
    /\ Store(st)
    /\ cmds' = cmds + 1
    /\ last' = [Last(name, s, ~st.err, FALSE) EXCEPT !.ref = reference,
                                                     !.text = text]
    /\ UNCHANGED <<phase, pc, loc, pres, stops, nwrites, holding, acquired,
                   released, pre, wrote, tmpFile, toolName>>

\* the revisions the user names in the model: the commits there are and one
\* that does not exist
Revisions == Ids(c) \cup {MaxId + 1}

\* jjagent move-session-into <s> <reference>; the user names a commit that
\* has a description
MoveSessionInto(s, reference) ==
    /\ cmds < MaxCmds
    /\ IF reference \in Ids(c) THEN c[reference].desc # EmptyDesc ELSE TRUE
    /\ \E st \in {move_session_into(World, s, reference)} :
          CommandDone("MoveSessionInto", s, RefRev(reference), <<>>, st)

\* jjagent split <reference>
Split(reference) ==
    /\ cmds < MaxCmds
    /\ nextId <= MaxId
    /\ \E st \in {split_change(World, reference)} :
          CommandDone("Split", NoSid, reference, <<>>, st)

\* the titles the user gives in the model: one of the user's own, one that
\* begins with "jjagent: "
NewTitles ==
    {<<Line("", <<"renamed", <<>>, 0>>)>>,
     <<TitleLine(format_precommit_message(SidB))>>}

\* jjagent describe <reference> -m <new_message>
Describe(reference, new_message) ==
    /\ cmds < MaxCmds
    /\ \E st \in {update_description_preserving_trailers_in(World, reference,
                                                             new_message)} :
          CommandDone("Describe", NoSid, RefRev(reference), new_message, st)

NextCommands ==
    \/ \E s \in Sessions, r \in Revisions : MoveSessionInto(s, r)
    \/ \E r \in Revisions : Split(RefRev(r))
    \/ \E s \in Sessions : Split(RefSession(s))
    \/ \E r \in Revisions, t \in NewTitles : Describe(r, t)

\* the trailer blocks a commit may have when a command finds it
TrailerBlocks ==
    {<<>>,
     <<Trailer("Claude-session-id", SidA)>>,
     <<Trailer("Signed-off-by", <<"X">>), Trailer("Claude-session-id", SidB)>>,
     <<Trailer("Claude-session-id", SidB), Trailer("Signed-off-by", <<"X">>)>>,
     <<Trailer("Claude-session-id", SidA), Trailer("Signed-off-by", <<"X">>),
       Trailer("Claude-session-id", SidB)>>}

\* base <- F <- uwc <- @ and base <- side: F is a commit of the user or a
\* session commit with any of the trailer blocks; side, on a branch of its
\* own, is not an ancestor of @: a commit of the user, or one with one of the
\* messages the program writes
InitBranch ==
    /\ \E k \in {"feature", "session"}, ts \in TrailerBlocks,
          d \in {format_session_message(SidB), UserDesc("side"),
                 format_session_part_message(SidB, 2),
                 PrecommitWithTrailer(SidA)} :
          c = (1 :> BaseCommit)
              @@ (2 :> Commit(1, Desc(k, IF k = "session" THEN short(SidA) ELSE <<>>,
                                      0, ts),
                              [EmptyTree EXCEPT !["y"] = Unit(ToolContent(SidA))],
                              FALSE))
              @@ (3 :> Commit(2, UserDesc("uwc"),
                              [EmptyTree EXCEPT !["y"] = Unit(ToolContent(SidA))],
                              FALSE))
              @@ (4 :> Commit(3, EmptyDesc,
                              [EmptyTree EXCEPT !["y"] = Unit(ToolContent(SidA))],
                              FALSE))
              @@ (5 :> Commit(1, d,
                              [EmptyTree EXCEPT !["x"] = Unit(ToolContent(SidB))],
                              FALSE))
    /\ at = 4
    /\ nextId = 6
    /\ InitQuiet
    /\ InitCommon

\* the commands of the command line, run by the user while no hook runs
SpecCommands == InitBranch /\ [][NextCommands]_vars

\* base <- [session a] <- L <- uwc <- precommit (@): L is the commit of
\* another session whose id contains the id of session a, or has the same
\* short form; it wrote file y, after the commit of session a if there is
\* one; @ is a precommit of session a with its trailer
InitLookalike ==
    /\ \E t \in UserTrees, other \in {SidLong, SidB} :
          \/ /\ c = (1 :> BaseCommit)
                    @@ (2 :> Commit(1, format_session_message(other),
                                    [EmptyTree EXCEPT !["y"] = Unit("b")], FALSE))
                    @@ (3 :> Commit(2, UserDesc("uwc"),
                                    [t EXCEPT !["y"] = Unit("b")], FALSE))
                    @@ (4 :> Commit(3, PrecommitWithTrailer(SidA),
                                    [t EXCEPT !["y"] = Unit("b")], FALSE))
             /\ at = 4
             /\ nextId = 5
          \/ /\ c = (1 :> BaseCommit)
                    @@ (2 :> Commit(1, format_session_message(SidA),
                                    [EmptyTree EXCEPT !["y"] = Unit(ToolContent(SidA))],
                                    FALSE))
                    @@ (3 :> Commit(2, format_session_message(other),
                                    [EmptyTree EXCEPT !["y"] = Unit("b")], FALSE))
                    @@ (4 :> Commit(3, UserDesc("uwc"),
                                    [t EXCEPT !["y"] = Unit("b")], FALSE))
                    @@ (5 :> Commit(4, PrecommitWithTrailer(SidA),
                                    [t EXCEPT !["y"] = Unit("b")], FALSE))
             /\ at = 5
             /\ nextId = 6
    /\ InitTool(c[at].parent)
    /\ InitCommon

\* the hooks from a repository in which a commit of a session with a
\* look-alike id lies below the user's commit
SpecExact == InitLookalike /\ [][Next]_vars

NextNumbers ==
    \/ \E s \in Sessions, f \in Files : ToolWrite(s, f)
    \/ \E s \in Sessions : PostTool(s)
    \/ \E s \in Sessions, r \in Revisions : MoveSessionInto(s, r)
    \/ \E r \in Revisions : Split(RefRev(r))
    \/ \E s \in Sessions : Split(RefSession(s))

\* the commands split and move-session-into between the tool's writes and
\* the PostToolUse of session a, whose precommit carries its trailer; the
\* session has one commit, or two with the user's commit between them
SpecNumbers == (InitSession \/ InitTrapped) /\ [][NextNumbers]_vars

\* a directory that is not inside a repository: no commit, no @, no .jj
\* directory
InitOutside ==
    /\ c = <<>>
    /\ at = Root
    /\ nextId = 1
    /\ InitQuiet
    /\ InitCommon

\* the hooks in a directory outside every repository, and in a user's plain
\* repository
SpecOutside == (InitOutside \/ InitPlain) /\ [][Next]_vars

\* the hooks step by step: a hook of one session can run between the two
\* halves of a hook of another
\* PreToolUse with acquire_lock taken turn by turn, and the clock
NextLock ==
    \/ \E s \in Sessions :
          \/ LockStart(s)
          \/ LockAcquire(s)
          \/ LockWait(s)
          \/ LockTimeout(s)
          \/ PreToolFinish(s)
    \/ Tick

SpecLock == InitPlain /\ [][NextLock]_vars

\* a process in the loop of acquire_lock keeps running
SpecLockLive ==
    SpecLock /\ \A s \in Sessions :
                   WF_vars(LockAcquire(s) \/ LockWait(s) \/ LockTimeout(s))

NextRelease ==
    \/ NextLock
    \/ \E s \in Sessions : PostTool(s)
    \/ \E s \in Sessions : Stop(s)

\* acquire_lock step by step, with the PostToolUse and Stop hooks of the
\* sessions running in between
SpecRelease == InitPlain /\ [][NextRelease]_vars

NextConc ==
    \/ Next
    \/ \E s \in Sessions : PreToolAcquire(s)
    \/ \E s \in Sessions : PreToolFinish(s)
    \/ \E s \in Sessions : PostToolSquash(s)
    \/ \E s \in Sessions : PostToolRestore(s)

SpecConc == InitMid /\ [][NextConc]_vars

\* runs without crashes: the host runs the PostToolUse hook after every tool
\* call and the Stop hook when the agent stops
SpecLive ==
    /\ InitPlain
    /\ [][Next]_vars
    /\ \A s \in Sessions : WF_vars(PostTool(s)) /\ WF_vars(Stop(s))

-----------------------------------------------------------------------------
(* Properties *)

\* the last step was a PostToolUse of s that succeeded and that followed a
\* successful PreToolUse of s, whose commit was still @
PostToolOk(s) ==
    /\ last.hook = "PostTool" /\ last.sid = s /\ last.ok
    /\ acquired[s] > 0 /\ last.at0 = pre[s].p

\* the last step was a PostToolUse or a Stop of s that succeeded while the
\* tool call of a successful PreToolUse of s was open, whose commit was still @
FinalizeOk(s) ==
    /\ last.hook \in {"PostTool", "Stop"} /\ last.sid = s /\ last.ok
    /\ last.tool /\ acquired[s] > 0 /\ last.at0 = pre[s].p

\* commit d carries the trailer Claude-session-id: s
IsSessionCommit(d, s) == AnyTrailer(c[d].desc.trailers, "Claude-session-id", s)

\* commit d carries the trailer Claude-precommit-session-id: s
IsPrecommitOf(cs, d, s) ==
    AnyTrailer(cs[d].desc.trailers, "Claude-precommit-session-id", s)

\* the files the tool of s changed since the PreToolUse of s
Written(s) ==
    {f \in Files : wrote[s][f] # NoValue /\ pre[s].tree[f] # Unit(wrote[s][f])}

\* the change that commit d makes to file f
Change(cs, d, f) ==
    [x \in Contents |-> cs[d].tree[f][x] - ParentTree(cs, d)[f][x]]

\* some commit of session s records what the tool wrote to file f
RecordedInSession(s, f) ==
    \E d \in Ids(c) :
        /\ IsSessionCommit(d, s)
        /\ c[d].tree[f] = Unit(wrote[s][f])
        /\ ParentTree(c, d)[f] # Unit(wrote[s][f])

\* C1: the intervals in which two distinct sessions hold the working-copy
\* lock (from a successful PreToolUse to the successful release by that
\* session's PostToolUse or Stop) never overlap: no PreToolUse of a session
\* succeeds while another session holds the lock.
C1_LockIntervalsDisjoint ==
    \A a, b \in Sessions : a # b => ~(holding[a] /\ holding[b])

\* C4: the commit a successful PreToolUse of s creates sits directly on top
\* of the previous @ and is recognised as a precommit of s: it carries the
\* trailer Claude-precommit-session-id: s.
C4_PrecommitRecognised ==
    (last.hook = "PreTool" /\ last.ok) =>
        /\ c[at].parent = last.at0
        /\ IsPrecommitOf(c, at, last.sid)
        /\ is_current_commit_precommit_for_session_in(World, last.sid)

\* C3: when PreToolUse of s succeeded with the user's commit U at @ and the
\* PostToolUse or Stop of s then succeeds, on exit @ has the description and
\* the change of U, what the tool wrote is in a commit that carries
\* Claude-session-id: s, and @ is not a precommit of s.
C3_FinalizeRestoresUwc ==
    \A s \in Sessions : FinalizeOk(s) =>
        /\ c[at].desc = pre[s].desc
        /\ \A f \in Files :
              Change(c, at, f) = [x \in Contents |-> pre[s].tree[f][x] - pre[s].ptree[f][x]]
        /\ \A f \in Written(s) : RecordedInSession(s, f)
        /\ ~IsPrecommitOf(c, at, s)

\* the number of conflicted commits among cs
Conflicts(cs) == Cardinality({d \in Ids(cs) : Conflicted(cs, d)})

\* folding the precommit at @ into the commit of session s (found, or
\* created below the parent of @) would leave more conflicted commits in the
\* session commit and its descendants, in the repository before the last step
WouldConflict(s) ==
    Bind([c |-> last.c0, at |-> last.at0, log |-> <<>>, n |-> nextId,
          err |-> FALSE, lf |-> NoFile, fl |-> NoSid, now |-> 0], LAMBDA st0 :
    Bind(IF find_session_change_anywhere_in(st0, s) = {}
         THEN create_session_change_in(st0, s) ELSE st0, LAMBDA st1 :
    Bind(find_session_change_anywhere_in(st1, s), LAMBDA found :
        /\ ~st1.err
        /\ found # {}
        /\ Bind(CHOOSE x \in found : TRUE, LAMBDA sc :
           Bind(jj_squash(st1, st1.at, sc, st1.c[sc].desc), LAMBDA r :
                /\ ~r.err
                /\ count_conflicts_in(r, sc) > count_conflicts_in(st1, sc))))))

\* C5: a successful PostToolUse never leaves more conflicted commits than
\* there were before it, and whenever folding the precommit into the session
\* commit would create a conflict, the precommit has become a commit titled
\* "session <short> pt. k" that carries Claude-session-id: s.
C5_ConflictBecomesPart ==
    \A s \in Sessions : PostToolOk(s) =>
        /\ Conflicts(c) <= Conflicts(last.c0)
        /\ WouldConflict(s) =>
              \E d \in Ids(c) :
                  /\ IsSessionCommit(d, s)
                  /\ c[d].desc.kind = "session" /\ c[d].desc.sh = short(s)
                  /\ c[d].desc.part > 0

\* C6: after a successful PostToolUse the tree at @ is the tree @ had when
\* the matching PreToolUse started plus what the tool wrote, and what the tool
\* wrote is recorded in a commit of the session, not in the user's commit at @.
C6_WritesInSessionCommit ==
    \A s \in Sessions : PostToolOk(s) =>
        /\ \A f \in Files :
              c[at].tree[f] = IF wrote[s][f] = NoValue THEN pre[s].tree[f]
                              ELSE Unit(wrote[s][f])
        /\ \A f \in Written(s) :
              /\ RecordedInSession(s, f)
              /\ ParentTree(c, at)[f] = Unit(wrote[s][f])

\* C7: after every PostToolUse that returns success, on whichever path, @
\* carries neither a Claude-session-id nor a Claude-precommit-session-id
\* trailer.
C7_NoTrailerAtWorkingCopy ==
    (last.hook = "PostTool" /\ last.ok) =>
        \A i \in 1..Len(c[at].desc.trailers) :
            c[at].desc.trailers[i].key
                \notin {"Claude-session-id", "Claude-precommit-session-id"}

\* a successful PostToolUse found @ to be the precommit of its session, with
\* the trailer, and moved @ off it
C7_Witness ==
    /\ last.hook = "PostTool" /\ last.ok
    /\ IsPrecommitOf(last.c0, last.at0, last.sid)
    /\ at # last.at0

\* C8: when @ is not a precommit of s (the user's commit, or a precommit of
\* another session), PostToolUse and Stop for s change no commit, no
\* description and not the position of @; and a second finalize_precommit(s)
\* directly after a first changes nothing.
C8_ForeignFinalizeIsNoop ==
    (last.hook \in {"PostTool", "Stop"}) =>
        /\ ~IsPrecommitOf(last.c0, last.at0, last.sid) =>
              c = last.c0 /\ at = last.at0
        /\ Bind(finalize_precommit(World, last.sid), LAMBDA r :
              r.st.c = c /\ r.st.at = at)

\* a Stop of one session ran while @ was the precommit of another session
C8_Witness ==
    /\ last.hook = "Stop"
    /\ \E t \in Sessions : t # last.sid /\ IsPrecommitOf(last.c0, last.at0, t)

\* C10: in every state reachable through PreToolUse, PostToolUse and Stop
\* hooks from a linear stack, the commits form a single path: no commit has
\* two children.
C10_SinglePath ==
    \A d \in Ids(c) \cup {Root} : Cardinality(Children(c, d)) <= 1

\* a hook created a session commit below the user's commit (the commits of
\* the initial repositories have change-ids below 4), and a later PreToolUse
\* put a precommit on top
C10_Witness ==
    /\ last.hook = "PreTool" /\ last.ok
    /\ \E d \in Ids(c), s \in Sessions : IsSessionCommit(d, s) /\ d >= 4
    /\ Cardinality(Ids(c)) >= 4

\* the steps that are hooks, or halves of hooks
HookSteps == {"PreTool", "PreToolAcquire", "PostTool", "PostToolSquash", "Stop"}

\* C2: while the PostToolUse of one session runs its sequence of jj commands
\* (the squash, the restore of the user's commit, undo, describe, new), no
\* hook of another session reads or changes the working copy or the
\* operation log in between.
C2_FinalizeNotInterleaved ==
    \A s \in Sessions : pc[s] = "squashed" =>
        ~(last.hook \in HookSteps /\ last.sid # s)

\* C9: in every run without crashes each successful PreToolUse of s is
\* eventually followed by a successful release of the lock by s, in its
\* PostToolUse or Stop, and s never releases more often than it acquired.
C9_EventuallyReleased ==
    /\ \A s \in Sessions : holding[s] ~> ~holding[s]
    /\ [](\A s \in Sessions : released[s] <= acquired[s])

\* the commits of cs that carry the trailer Claude-session-id: s
SessionCommitsOf(cs, s) ==
    {d \in Ids(cs) : AnyTrailer(cs[d].desc.trailers, "Claude-session-id", s)}

\* the repository before the last step, as a hook finds it
Before ==
    [c |-> last.c0, at |-> last.at0, log |-> last.log0, n |-> last.n0,
     err |-> FALSE, lf |-> last.lf0, fl |-> last.fl0, now |-> last.now0]

\* C11: after a successful PostToolUse of s whose fold would not conflict,
\* exactly one commit carries Claude-session-id: s, and when such a commit
\* existed before, the session lookup returns the same commit as before.
C11_OneSessionCommit ==
    \A s \in Sessions : (PostToolOk(s) /\ ~WouldConflict(s)) =>
        /\ Cardinality(SessionCommitsOf(c, s)) = 1
        /\ SessionCommitsOf(last.c0, s) # {} =>
              find_session_change_anywhere_in(World, s)
                  = find_session_change_anywhere_in(Before, s)

\* the conditions that PreToolUse refuses, in the repository before the last
\* step, with the message that names each
Refused ==
    {m \in {SessionChangeMessage, NotAtHeadMessage, ConflictsMessage} :
        \/ m = SessionChangeMessage /\ get_current_commit_session_id_in(Before) # <<>>
        \/ m = NotAtHeadMessage /\ ~is_at_head_in(Before)
        \/ m = ConflictsMessage /\ has_conflicts_in(Before)}

\* C12: when @ carries a Claude-session-id trailer, has descendants or has
\* unresolved conflicts, PreToolUse fails with a message that names such a
\* condition, creates no commit, leaves @ where it was, and the lock file is
\* gone and the OS lock free when it returns.
C12_PreToolRefuses ==
    (last.hook = "PreTool" /\ Refused # {}) =>
        /\ ~last.ok
        /\ last.msg \in Refused
        /\ c = last.c0 /\ at = last.at0
        /\ lockFile = NoFile /\ flock = NoSid

\* a PreToolUse was refused because @ had an unresolved conflict
C12_Witness ==
    /\ last.hook = "PreTool" /\ ~last.ok
    /\ last.msg = ConflictsMessage
    /\ has_conflicts_in(Before)

\* the lock file names session s
LockNames(lf, s) == lf.exists /\ lf.holder = s

\* C13: a hook that fails after it acquired the lock (a PreToolUse that got
\* past acquire_lock, or a PostToolUse or Stop of the session the lock file
\* names) leaves no lock file that names its session.
C13_FailureReleasesLock ==
    /\ (last.hook = "PreTool" /\ ~last.ok /\ last.msg # LockMessage) =>
           ~LockNames(lockFile, last.sid)
    /\ (last.hook \in {"PostTool", "Stop"} /\ ~last.ok
            /\ LockNames(last.lf0, last.sid)) =>
           ~LockNames(lockFile, last.sid)

\* C14: when @ has unresolved conflicts, PostToolUse and Stop fail with the
\* error about the conflicts, change no commit and not @, and still release
\* the lock: the lock file does not name the session afterwards, and when it
\* named the session before, release_lock succeeded and removed it.
C14_ConflictsFailFinalize ==
    (last.hook \in {"PostTool", "Stop"} /\ has_conflicts_in(Before)) =>
        /\ ~last.ok
        /\ last.msg = ConflictsMessage
        /\ c = last.c0 /\ at = last.at0
        /\ ~LockNames(lockFile, last.sid)
        /\ LockNames(last.lf0, last.sid) => last.rel /\ lockFile = NoFile

\* a PostToolUse ran while @, a precommit with the trailer of its session, had
\* an unresolved conflict and the lock file named the session
C14_Witness ==
    /\ last.hook = "PostTool"
    /\ has_conflicts_in(Before)
    /\ IsPrecommitOf(last.c0, last.at0, last.sid)
    /\ LockNames(last.lf0, last.sid)

\* the lock file names a session other than s and its metadata are older than
\* the lock timeout at time t
Stale(lf, t, s) ==
    /\ lf.exists
    /\ lf.holder \notin {NoSid, s}
    /\ age_seconds(lf, t) > LOCK_TIMEOUT_SECS

\* the last step was a turn of acquire_lock that did not get the lock
Waited == last.hook = "LockWait" \/ (last.hook = "PreTool" /\ last.msg = LockMessage)

\* C15: a PreToolUse that finds the lock file of another session, written
\* more than five minutes ago, while no process of the owner holds the lock
\* (the owner crashed, or never ran its PostToolUse), neither waits nor fails:
\* the turn of acquire_lock that finds it so acquires the lock, and the file
\* then carries the metadata of the acquiring session alone, dated now.
C15_StaleLockTakenOver ==
    /\ Waited => ~(Stale(last.lf0, last.now0, last.sid) /\ last.fl0 = NoSid)
    /\ (last.hook = "PreToolAcquire" /\ Stale(last.lf0, last.now0, last.sid))
           => /\ flock = last.sid
              /\ lockFile = [exists |-> TRUE, holder |-> last.sid,
                             acquired_at |-> as_secs(now)]
              /\ age_seconds(lockFile, now) = 0

C15_Witness ==
    /\ last.hook = "PreToolAcquire"
    /\ Stale(last.lf0, last.now0, last.sid)
    /\ last.waited = 0
    /\ lockFile.holder = last.sid
    /\ \E t \in Sessions \ {last.sid} : phase[t] = "tool" /\ last.lf0.holder = t

\* the delay of the turn after `tries` sleeps: 100 ms doubled each time, at
\* most 5 s
RECURSIVE DelayAfter(_)
DelayAfter(tries) ==
    IF tries = 0 THEN 100
    ELSE IF 2 * DelayAfter(tries - 1) > 5000 THEN 5000
    ELSE 2 * DelayAfter(tries - 1)

\* the delays of acquire_lock and its failure
C16_Bounded ==
    /\ \A s \in Sessions :
          pc[s] = "locking" => loc[s].retry_delay = DelayAfter(loc[s].tries)
    /\ last.hook = "LockWait" =>
          /\ last.waited < 300 * 1000
          /\ now - last.now0 = DelayAfter(loc[last.sid].tries - 1)
    /\ (last.hook = "PreTool" /\ last.msg = LockMessage) =>
          /\ ~last.ok
          /\ last.waited >= 300 * 1000
          /\ last.fl0 # NoSid
          /\ last.holder = short(last.fl0)
          /\ last.holder = short(last.lf0.holder)
          /\ last.age = as_secs(last.now0) - last.lf0.acquired_at
          /\ pc[last.sid] = "idle"

\* C16: acquire_lock always terminates.  It retries after 100 ms, doubling
\* the delay up to the cap of 5 s; it fails only once 5 minutes have passed
\* since it started, with an error that names the session that holds the
\* lock and the age of its lock; a process in the loop always leaves it.
C16_AcquireTerminates ==
    /\ []C16_Bounded
    /\ \A s \in Sessions : (pc[s] = "locking") ~> (pc[s] # "locking")

C16_Witness ==
    /\ last.hook = "PreTool"
    /\ last.msg = LockMessage
    /\ last.waited >= 300 * 1000
    /\ last.holder # NoSid

\* the lock file before the last step named a session other than that of the
\* step
ForeignLock == last.lf0.exists /\ last.lf0.holder \notin {NoSid, last.sid}

\* C17: a PostToolUse or Stop of session s that finds the metadata of another
\* session in the lock file leaves the file as it is (release_lock fails and
\* removes nothing), and returns what finalize_precommit returned: the same
\* result and error, the repository as the finalization left it.
C17_MismatchKeepsFile ==
    (last.hook \in {"PostTool", "Stop"} /\ ForeignLock) =>
        /\ lockFile = last.lf0
        /\ ~last.rel
        /\ last.from = "idle" =>
              \E r \in {finalize_precommit(Before, last.sid)} :
                 /\ last.ok = r.ok
                 /\ last.msg = MessageOf(r)
                 /\ c = r.st.c
                 /\ at = r.st.at

\* a PostToolUse folded the precommit of its session while the lock file
\* named the other session
C17_Witness ==
    /\ last.hook = "PostTool"
    /\ last.from = "idle"
    /\ ForeignLock
    /\ last.ok
    /\ c # last.c0
    /\ lockFile.holder \in Sessions \ {last.sid}

\* the last step was a Stop of s that found the precommit of the last
\* successful PreToolUse of s still at @, no PostToolUse of s having run since
InterruptedStop(s) ==
    /\ last.hook = "Stop" /\ last.sid = s
    /\ last.tool /\ acquired[s] > 0 /\ last.at0 = pre[s].p
    /\ ~has_conflicts_in(Before)

\* C18: when the PostToolUse of s was skipped after a successful PreToolUse,
\* the next Stop of s that finds that precommit still at @ finalizes it as
\* the PostToolUse would have: it succeeds, @ is the user's commit again with
\* its description, the precommit is gone, and what the tool wrote is in a
\* commit that carries Claude-session-id: s.
C18_StopFinalizesInterrupted ==
    \A s \in Sessions : InterruptedStop(s) =>
        /\ last.ok
        /\ c[at].desc = pre[s].desc
        /\ c[at].desc.kind # "precommit"
        /\ SessionCommitsOf(c, s) # {}
        /\ \A f \in Written(s) : RecordedInSession(s, f)

\* the last step was a whole PostToolUse that found a precommit of its
\* session at @, without conflicts, and no commit of the session
FirstPostTool ==
    /\ last.hook = "PostTool" /\ last.from = "idle"
    /\ ~has_conflicts_in(Before)
    /\ is_current_commit_precommit_for_session_in(Before, last.sid)
    /\ find_session_change_anywhere_in(Before, last.sid) = {}

\* the stack of commits cs from commit d down to the root
RECURSIVE StackFrom(_, _)
StackFrom(cs, d) == IF d = Root THEN <<>> ELSE StackFrom(cs, cs[d].parent) \o <<d>>

\* C19: a PostToolUse that finds no commit of its session creates one
\* directly below the user's commit U = @- without moving @: the new commit
\* has the session message and no change, takes the old parent of U and
\* becomes the parent of U, so that the stack reads base, session commit, U,
\* precommit; when the hook has succeeded that commit is still there, on the
\* old parent of U.
C19_SessionCommitBelowUwc ==
    FirstPostTool =>
        \E U \in {last.c0[last.at0].parent} :
        \E new \in {last.n0} :
        \E b \in {BeforeSquash(Before, last.sid)} :
            /\ b.ok /\ b.flag
            /\ b.st.at = last.at0
            /\ Ids(b.st.c) = Ids(last.c0) \cup {new}
            /\ b.st.c[new].desc = format_session_message(last.sid)
            /\ b.st.c[new].parent = last.c0[U].parent
            /\ b.st.c[new].tree = ParentTree(last.c0, U)
            /\ StackFrom(b.st.c, last.at0)
                  = StackFrom(last.c0, last.c0[U].parent) \o <<new, U, last.at0>>
            /\ find_session_change_anywhere_in(b.st, last.sid) = {new}
            /\ last.ok =>
                  /\ new \in Ids(c)
                  /\ IsSessionCommit(new, last.sid)
                  /\ c[new].parent = last.c0[U].parent

\* a PostToolUse created the commit of its session and succeeded
C19_Witness ==
    /\ FirstPostTool
    /\ last.ok
    /\ SessionCommitsOf(last.c0, last.sid) = {}
    /\ SessionCommitsOf(c, last.sid) = {last.n0}
    /\ c[at].parent = last.n0
    /\ c[at].desc = last.c0[last.c0[last.at0].parent].desc

\* the commits that carry Claude-session-id: s when a whole PostToolUse or
\* Stop, the last step, reached its first squash, the commit it created for
\* its session included; before the step, for every other step
SessionCommitsSeen(s) ==
    IF last.hook \in {"PostTool", "Stop"} /\ last.from = "idle"
    THEN SessionCommitsOf(last.c0, s)
            \cup SessionCommitsOf(BeforeSquash(Before, last.sid).st.c, s)
    ELSE SessionCommitsOf(last.c0, s)

\* C20: no hook removes a commit that carries a Claude-session-id trailer:
\* every commit that carried Claude-session-id: s before a step (a hook or a
\* part of one), and the session commit a PostToolUse or Stop created before
\* its squash, is still there after the step, the jj undo of the conflict
\* path included, under the same change-id and with that trailer.
C20_SessionCommitsKept ==
    \A s \in Sessions : \A d \in SessionCommitsSeen(s) :
        d \in Ids(c) /\ IsSessionCommit(d, s)

\* a PostToolUse went through the conflict path, jj undo twice, and the
\* precommit became a part of the session next to the commit of the session
C20_Witness ==
    /\ last.hook = "PostTool"
    /\ last.from = "idle"
    /\ last.ok
    /\ SessionCommitsSeen(last.sid) # {}
    /\ \E d \in SessionCommitsOf(c, last.sid) \ SessionCommitsSeen(last.sid) :
          c[d].desc.part > 0

\* the last step was a whole PostToolUse or Stop that found a precommit of its
\* session at @, without conflicts, while every commit that carried the
\* session trailer of that session, and there was one, was immutable
AllImmutable ==
    /\ last.hook \in {"PostTool", "Stop"} /\ last.from = "idle"
    /\ ~has_conflicts_in(Before)
    /\ is_current_commit_precommit_for_session_in(Before, last.sid)
    /\ SessionCommitsOf(last.c0, last.sid) # {}
    /\ \A d \in SessionCommitsOf(last.c0, last.sid) : last.c0[d].imm

ConflictPath ==
    /\ last.hook \in {"PostTool", "Stop"} /\ last.from = "idle"
    /\ last.ok
    /\ is_current_commit_precommit_for_session_in(Before, last.sid)
    /\ last.at0 \in Ids(c)
    /\ IsSessionCommit(last.at0, last.sid)

\* the commits the session lookup could return for s among cs: those whose
\* Claude-session-id trailer is s, the immutable ones excluded
Findable(cs, s) == {d \in SessionCommitsOf(cs, s) : ~cs[d].imm}

\* C22: the part number of a new conflict-path commit of session s is one
\* more than the number of commits the session lookup could return for s
\* when the precommit was about to be squashed.
C22_PartNumber ==
    ConflictPath =>
        c[last.at0].desc.part
            = Cardinality(Findable(BeforeSquash(Before, last.sid).st.c, last.sid)) + 1

\* the states of a finalization that takes the conflict path, for the last
\* step, a whole PostToolUse or Stop: b before the squash, l after the squash
\* into the session commit, r after the squash that restores the user's
\* commit, u1 and u2 after the first and the second jj undo; a set of at
\* most one record
ConflictRun ==
    IF ~(last.hook \in {"PostTool", "Stop"} /\ last.from = "idle") THEN {}
    ELSE
    Bind(BeforeSquash(Before, last.sid), LAMBDA b :
        IF ~b.flag THEN {}
        ELSE
        Bind(SquashIntoSession(
                 b.st, CHOOSE x \in find_session_change_anywhere_in(b.st, last.sid) : TRUE,
                 b.st.c[b.st.at].parent), LAMBDA l :
            IF l.st.err THEN {}
            ELSE
            Bind(RestoreUwc(l.st, l), LAMBDA r :
                IF ~(r.ok /\ r.flag) THEN {}
                ELSE {[b |-> b.st, l |-> l.st, r |-> r.st,
                       u1 |-> jj_undo(r.st), u2 |-> jj_undo(jj_undo(r.st))]})))

Promoted(k) ==
    jj_new(jj_describe(k.u2, c[last.at0].desc), EmptyDesc)

\* C24: after the precommit has been promoted to pt. k, the user's commit U
\* is moved above pt. k exactly when that does not raise the number of
\* conflicted commits of the repository; otherwise the move is undone.  The
\* conflict path ends either with U's description and change at @, on top
\* of pt. k, or with the commits as they were after the promotion, U below
\* pt. k; in both cases with no more conflicted commits than after the
\* promotion and than before the hook.
C24_LiftOnlyWithoutConflicts ==
    ConflictPath => \A k \in ConflictRun :
        \E n \in {Promoted(k)} : \E U \in {last.c0[last.at0].parent} :
        \E q \in {jj_squash(n, U, n.at, last.c0[U].desc)} :
            /\ Conflicts(c) <= Conflicts(n.c)
            /\ Conflicts(c) <= Conflicts(last.c0)
            /\ IF ~q.err /\ Conflicts(q.c) <= Conflicts(n.c)
               THEN /\ U \notin Ids(c)
                    /\ c[at].parent = last.at0
                    /\ c[at].desc = last.c0[U].desc
                    /\ \A f \in Files : Change(c, at, f) = Change(last.c0, U, f)
               ELSE /\ c = n.c /\ at = n.at
                    /\ c[last.at0].parent = U
                    /\ c[U] = k.b.c[U]

\* a conflict path ended with the move of the user's commit undone because
\* it would have brought a conflicted commit
C24_Witness ==
    /\ ConflictPath
    /\ \E k \in ConflictRun :
          \E n \in {Promoted(k)} : \E U \in {last.c0[last.at0].parent} :
          \E q \in {jj_squash(n, U, n.at, last.c0[U].desc)} :
              /\ ~q.err
              /\ Conflicts(q.c) > Conflicts(n.c)
              /\ c[last.at0].parent = U

\* the last step was the successful PostToolUse of the first tool call of s
\* in the repository root, base, U (@), U with the user's text in file x: the
\* PreToolUse of s found U at @, the tool replaced x, no other session ran
ReplacedUserFile(s) ==
    /\ PostToolOk(s)
    /\ acquired[s] = 1
    /\ \A t \in Sessions \ {s} : acquired[t] = 0
    /\ Cardinality(Ids(last.c0)) = 3
    /\ pre[s].tree["x"] = Unit(UserContent)
    /\ pre[s].ptree = EmptyTree
    /\ wrote[s]["x"] = ToolContent(s)
    /\ wrote[s]["y"] = NoValue

\* C25: from the stack root, base, U with the user's text in x, after
\* PreToolUse, a tool write that replaces x and PostToolUse, the stack from
\* @ down reads base, S, S.2, U with at most an empty @ above U: S and S.2
\* carry the session trailer and no other commit does, S.2 is part 2 and has
\* the agent's text in x, U has the user's description and the user's text
\* in x, and no commit is conflicted.
C25_ConflictStack ==
    \A s \in Sessions : ReplacedUserFile(s) =>
        \E st \in {StackFrom(c, at)} :
            /\ Len(st) \in {4, 5}
            /\ c[st[1]].desc.kind = "base"
            /\ SessionCommitsOf(c, s) = {st[2], st[3]}
            /\ c[st[2]].desc.part = 0
            /\ c[st[3]].desc.part = 2
            /\ c[st[3]].tree["x"] = Unit(ToolContent(s))
            /\ c[st[4]].desc = pre[s].desc
            /\ c[st[4]].tree["x"] = Unit(UserContent)
            /\ Len(st) = 5 => (c[st[5]].desc = EmptyDesc /\ EmptyChange(c, st[5]))
            /\ Conflicts(c) = 0

\* the commits of the user trapped below a part of session s in cs: commits
\* without a session trailer that sit on a commit of s and below a commit
\* "pt. k" of s
Trapped(cs, s) ==
    {u \in Ids(cs) :
        /\ ~\E i \in 1..Len(cs[u].desc.trailers) :
                cs[u].desc.trailers[i].key = "Claude-session-id"
        /\ cs[u].parent \in SessionCommitsOf(cs, s)
        /\ \E k \in SessionCommitsOf(cs, s) :
                cs[k].parent = u /\ cs[k].desc.part >= 2}

\* C26: when the user's commit was left trapped below a part commit of
\* session s, the next tool call of s tries again to move it to the tip: a
\* successful PostToolUse of s that finds a trapped commit runs the conflict
\* path, the only place where the move is attempted.
C26_TrappedMovedAgain ==
    \A s \in Sessions :
        (PostToolOk(s) /\ last.from = "idle" /\ Trapped(last.c0, s) # {})
            => ConflictRun # {}

\* C27: when a commit carries several Claude-session-id trailers, the
\* lookups that identify a commit's session use only the last one: the
\* commit a successful PostToolUse or Stop of s found as the commit of its
\* session, and folded the precommit into, has s as its last
\* Claude-session-id trailer, and the session id PreToolUse reads from @ is
\* the value of the last trailer of @.
C27_LastTrailerDecides ==
    /\ \A s \in Sessions :
          (/\ FinalizeOk(s) /\ last.from = "idle"
           /\ is_current_commit_precommit_for_session_in(Before, s))
            => \A d \in find_session_change_anywhere_in(Before, s) :
                   get_session_id_in(Before, d) = s
    /\ last.hook = "PreTool" /\ last.from = "idle"
          => get_current_commit_session_id_in(Before)
                = get_session_id_in(Before, last.at0)

\* the diff of the commit of session s in repository st, file by file; no
\* diff when the session has no commit
SessionDiff(st, s, f) ==
    Bind(find_session_change_anywhere_in(st, s), LAMBDA found :
        IF found = {} THEN [x \in Contents |-> 0]
        ELSE Change(st.c, CHOOSE d \in found : TRUE, f))

\* the diff of the precommit that the last step, a PostToolUse, found at @
PrecommitDiff(f) == Change(last.c0, last.at0, f)

\* the precommit of the last step and the commit of session s touch
\* different files, and the precommit is not empty
Disjoint(s) ==
    /\ \A f \in Files :
          \/ SessionDiff(Before, s, f) = [x \in Contents |-> 0]
          \/ PrecommitDiff(f) = [x \in Contents |-> 0]
    /\ \E f \in Files : PrecommitDiff(f) # [x \in Contents |-> 0]

\* C28: for one session and tool uses whose precommits touch disjoint
\* content, the diff of the session commit after a PostToolUse is the union
\* of the precommits' diffs: each successful PostToolUse of s whose fold
\* does not conflict leaves a commit of s whose diff is the diff that commit
\* had before (the union so far) together with the diff of the precommit,
\* nothing lost and nothing left in another commit.
C28_SessionDiffIsUnion ==
    \A s \in Sessions :
        (PostToolOk(s) /\ last.from = "idle" /\ ~WouldConflict(s) /\ Disjoint(s))
            => /\ find_session_change_anywhere_in(World, s) # {}
               /\ \A f \in Files :
                     SessionDiff(World, s, f)
                         = [x \in Contents |->
                               SessionDiff(Before, s, f)[x] + PrecommitDiff(f)[x]]

\* both sessions have run one PreToolUse that succeeded and the hook that
\* ends the tool call, and no hook is running; the last step was a
\* successful PostToolUse
BothSessionsDone ==
    /\ \A s \in Sessions :
          acquired[s] = 1 /\ phase[s] = "idle" /\ pc[s] = "idle"
    /\ last.hook = "PostTool" /\ last.ok

\* C29: when two sessions have each run PreToolUse, a tool write and
\* PostToolUse concurrently on the same repository, each session's changes
\* are in a commit of that session: every file a session's tool wrote is
\* recorded by a commit that carries that session's trailer, and by no
\* commit of the other session.
C29_EachSessionOwnsItsChanges ==
    BothSessionsDone =>
        \A s \in Sessions : \A f \in Files :
            wrote[s][f] # NoValue =>
                /\ RecordedInSession(s, f)
                /\ \A t \in Sessions \ {s} : \A d \in SessionCommitsOf(c, t) :
                       Change(c, d, f)[wrote[s][f]] <= 0

\* C30: when the current directory is not inside a jj repository, PreToolUse,
\* PostToolUse and Stop each return success without acquiring the lock,
\* without changing any state and without creating a .jj directory: after
\* the hook there is no lock file (the file lives in .jj, which acquire_lock
\* creates), no process has the OS lock, and the commits, @ and the
\* operation log are what they were.
C30_OutsideRepositoryNoop ==
    (last.hook \in {"PreTool", "PostTool", "Stop"} /\ ~is_jj_repo(Before)) =>
        /\ last.ok /\ last.msg = NoMessage
        /\ ~lockFile.exists /\ lockFile = last.lf0
        /\ flock = last.fl0
        /\ c = last.c0 /\ at = last.at0
        /\ oplog = last.log0 /\ nextId = last.n0
        /\ \A s \in Sessions : ~holding[s] /\ acquired[s] = 0

\* outside a repository a PostToolUse has run after the PreToolUse of its
\* session and a write of its tool
C30_Witness ==
    /\ last.hook = "PostTool" /\ ~is_jj_repo(Before)
    /\ last.tool
    /\ \E f \in Files : wrote[last.sid][f] # NoValue

\* the repository a PreToolUse or PostToolUse of the dispatcher, the last
\* step, would have left had the files of the temp directory been `file`
MainHookWith(file) ==
    IF last.hook = "MainPreTool"
    THEN handle_pre_tool_use(Before, file, last.sid, toolName[last.sid]).st
    ELSE handle_post_tool_use(Before, file, last.sid, last.name0).st

\* C31: hooks keep no state between invocations other than commit trailers
\* in the repository and the lock file: a PreToolUse or PostToolUse of the
\* dispatcher leaves no file elsewhere changed, and what it does to the
\* repository is the same whatever files an earlier hook process left.
C31_NoStateOutsideRepository ==
    last.hook \in {"MainPreTool", "MainPostTool"} =>
        /\ tmpFile = last.tmp0
        /\ \A file \in [Sessions -> Ids(last.c0) \cup {Root}] :
              /\ MainHookWith(file).c = c
              /\ MainHookWith(file).at = at

\* the last step was a successful PostToolUse of the dispatcher for session
\* s, and the PreToolUse of that tool call had created a temporary change
TempChangeDone(s) ==
    /\ last.hook = "MainPostTool" /\ last.sid = s /\ last.ok
    /\ pre[s].p # pre[s].u

\* the commits of cs that carry the trailer Claude-temp-change: s
TempChangesOf(cs, s) ==
    {d \in Ids(cs) : AnyTrailer(cs[d].desc.trailers, "Claude-temp-change", s)}

\* C35: in the dispatcher of main.rs, after a PostToolUse has succeeded for a
\* session whose PreToolUse created a temporary change, @ is again the
\* change that was the working copy at PreToolUse and no commit carries
\* Claude-temp-change of that session, whether or not the tool changed a
\* file.
C35_BackOnOriginal ==
    \A s \in Sessions : TempChangeDone(s) =>
        /\ at = pre[s].u
        /\ TempChangesOf(c, s) = {}

\* such a PostToolUse has run after a tool call that wrote nothing: the
\* temporary change was there before and was empty
C35_Witness ==
    \E s \in Sessions :
        /\ TempChangeDone(s)
        /\ last.at0 \in TempChangesOf(last.c0, s)
        /\ EmptyChange(last.c0, last.at0)

\* the tool_name of the tool call that the last step, a hook of the
\* dispatcher, was run for
ToolNameOfLast ==
    IF last.hook = "MainPreTool" THEN toolName[last.sid] ELSE last.name0

-----------------------------------------------------------------------------
(* The commands of the command line *)

\* the step left every commit and @ as they were
RepositoryUnchanged == c = last.c0 /\ at = last.at0

\* the title of a description
TitleOf(d) == <<d.kind, d.sh, d.part>>

\* the description move-session-into is to leave: the title and the other
\* trailers as they were, in their order, one Claude-session-id trailer last
Moved(d, s) ==
    [d EXCEPT !.trailers =
        SelectSeq(d.trailers, LAMBDA t : t.key # "Claude-session-id")
        \o <<Trailer("Claude-session-id", s)>>]

\* C32: move-session-into <session> <ref> fails and changes nothing unless
\* ref is a strict ancestor of @; for a strict ancestor that can be rewritten
\* it succeeds and changes only the description of ref: the Claude-session-id
\* trailers it had are gone, Claude-session-id: <session> is its last
\* trailer, the title and the other trailers are as they were
C32_MoveSessionInto ==
    last.hook = "MoveSessionInto" =>
        IF last.ref.rev \notin Ancestors(last.c0, last.at0)
        THEN ~last.ok /\ RepositoryUnchanged
        ELSE IF last.c0[last.ref.rev].imm
        THEN ~last.ok /\ RepositoryUnchanged
        ELSE /\ last.ok
             /\ at = last.at0
             /\ c = [last.c0 EXCEPT ![last.ref.rev].desc = Moved(@, last.sid)]

\* the commit a split is to work on: the commit of the session when the
\* argument is the id of a session that has one, the revision named otherwise
SplitTarget ==
    IF last.ref.sid # NoSid /\ find_session_change_anywhere_in(Before, last.ref.sid) # {}
    THEN find_session_change_anywhere_in(Before, last.ref.sid)
    ELSE {last.ref.rev} \cap Ids(last.c0)

\* C33: split fails and changes nothing when the commit its argument stands
\* for (the session's commit first, the revision otherwise) does not exist
\* or is not an ancestor of @; for a strict ancestor with a Claude-session-id
\* trailer it succeeds, @ stays the working copy and its new parent is a new
\* empty 'pt. k' commit of that session, above the referenced commit
C33_SplitInsertsPart ==
    last.hook = "Split" =>
        IF \A t \in SplitTarget : t \notin Ancestors(last.c0, last.at0) \cup {last.at0}
        THEN ~last.ok /\ RepositoryUnchanged
        ELSE \A t \in SplitTarget :
            (/\ t \in Ancestors(last.c0, last.at0)
             /\ FilterValues(last.c0[t].desc.trailers, "Claude-session-id") # <<>>)
            => /\ last.ok
               /\ at = last.at0
               /\ Ids(c) = Ids(last.c0) \cup {last.n0}
               /\ c[at].parent = last.n0
               /\ c[last.n0].parent = last.c0[last.at0].parent
               /\ c[last.n0].desc.kind = "session"
               /\ c[last.n0].desc.part >= 1
               /\ \E i \in 1..Len(last.c0[t].desc.trailers) :
                     /\ last.c0[t].desc.trailers[i].key = "Claude-session-id"
                     /\ c[last.n0].desc.trailers = <<last.c0[t].desc.trailers[i]>>
               /\ EmptyChange(c, last.n0)
               /\ t \in Ancestors(c, last.n0)
               /\ \A d \in Ids(last.c0) \ {at} : c[d] = last.c0[d]
               /\ c[at].tree = last.c0[at].tree
               /\ c[at].desc = last.c0[at].desc

\* the text of every description of the repository, parsed and emitted
\* again, is the text
RoundTrip ==
    \A d \in Ids(c) :
        LET lines == DescriptionLines(c[d].desc)
            p == parse_description_and_trailers(lines)
        IN  Emit(p.title, p.trailers) = lines

\* C34: a describe through update_description_preserving_trailers that
\* succeeds gives the commit the new title and leaves its trailers as they
\* were, each one and their order; and every message of the grammar, parsed
\* into title and trailers and emitted again, is the same message
C34_TrailersKept ==
    /\ (last.hook = "Describe" /\ last.ok) =>
          /\ c[last.ref.rev].desc.trailers = last.c0[last.ref.rev].desc.trailers
          /\ TitleOf(c[last.ref.rev].desc) = last.text[1].val
    /\ RoundTrip

\* a describe gave a new title to a commit with three trailers
C34_Witness ==
    /\ last.hook = "Describe"
    /\ last.ok
    /\ Len(c[last.ref.rev].desc.trailers) = 3
    /\ TitleOf(c[last.ref.rev].desc) # TitleOf(last.c0[last.ref.rev].desc)
    /\ RoundTrip

-----------------------------------------------------------------------------
(* Precommits left behind *)

\* no tool call is open and no hook process runs
AllFinalized == \A s \in Sessions : phase[s] = "idle" /\ pc[s] = "idle"

PrecommitsIn(cs) == {d \in Ids(cs) : cs[d].desc.kind = "precommit"}

\* C37: once every session whose PreToolUse succeeded has run its
\* PostToolUse or Stop, no commit of the repository is a precommit
C37_NoPrecommitLeft ==
    (is_jj_repo(World) /\ AllFinalized) => PrecommitsIn(c) = {}

\* C38: a PostToolUse or Stop hook of session s removes the lock file only
\* when the file records session s
C38_ReleaseOnlyOwnFile ==
    (/\ last.hook \in {"PostTool", "Stop"}
     /\ last.lf0.exists
     /\ ~lockFile.exists)
    => last.lf0.holder = last.sid

\* the part commits the last step created, each with its session: the
\* precommit a conflict path has turned into a part, the commit a split has
\* inserted
CreatedParts ==
    (IF ConflictPath THEN {<<last.at0, last.sid>>} ELSE {})
    \cup (IF last.hook = "Split" /\ last.ok
          THEN {<<last.n0, c[last.n0].desc.trailers[1].val>>}
          ELSE {})

\* C39: a commit the conflict path or a split creates for session s has a
\* part number that no other commit with Claude-session-id: s has
C39_PartNumbersNotReused ==
    \A p \in CreatedParts :
        \A d \in SessionCommitsOf(c, p[2]) \ {p[1]} :
            c[d].desc.part # c[p[1]].desc.part

\* the last step, a PostToolUse or Stop of session s, has folded the
\* precommit of s that was @: the precommit is gone
Folded(s) ==
    /\ last.hook \in {"PostTool", "Stop"} /\ last.from = "idle"
    /\ last.sid = s
    /\ last.ok
    /\ IsPrecommitOf(last.c0, last.at0, s)
    /\ last.at0 \notin Ids(c)

\* the commits that took up a change in the last step: those that make a
\* change which no commit with their description made before (the user's
\* commit comes back under a new change-id with the change it had)
Received ==
    {d \in Ids(c) :
        /\ \E f \in Files : Change(c, d, f) # [x \in Contents |-> 0]
        /\ ~\E e \in Ids(last.c0) :
              /\ last.c0[e].desc = c[d].desc
              /\ \A f \in Files : Change(last.c0, e, f) = Change(c, d, f)}

\* C40: when the precommit of session s is folded, every commit that takes
\* up a change carries a Claude-session-id trailer whose value is s
C40_FoldedIntoOwnSession ==
    \A s \in Sessions :
        Folded(s) => \A d \in Received : IsSessionCommit(d, s)

\* a precommit of session a with a change was folded while a commit of a
\* session whose id contains that of session a was in the repository
C40_Witness ==
    /\ Folded(SidA)
    /\ Received # {}
    /\ \A d \in Received : IsSessionCommit(d, SidA)
    /\ \E d \in Ids(c) :
          AnyTrailer(c[d].desc.trailers, "Claude-session-id", SidLong)

====
